---- MODULE Spec2Model ----
(***************************************************************************)
(* A model of the skill regeneration pipeline of backend/python:           *)
(*   source_fetcher.py  (descriptors, fetch_sources, snapshots, diff)      *)
(*   skill_validator.py (validate_json_schema, validate_skill)             *)
(*   skill_normalizer.py (normalize, skill_to_markdown)                    *)
(*   llm_client.py      (LLMClient.call)                                   *)
(*   config.py          (Config.validate)                                  *)
(*   github_sync.py     (branch, commit, push)                             *)
(*   main.py            (SkillRegenerator: regenerate_skill(s))            *)
(*                                                                         *)
(* Python strings are TLA+ strings.  An Optional value is None == <<>> or  *)
(* Some(x) == <<x>>.  A Python dict is a function from its keys.           *)
(***************************************************************************)
EXTENDS Integers, Sequences, FiniteSets, TLC

VARIABLES
    dry_run,        \* SkillRegenerator.dry_run
    config,         \* the Config of the run, as far as validate() reads it
    skill_names,    \* the argument of regenerate_skills
    pc,             \* position of the run inside regenerate_skills
    idx,            \* index of the skill the for loop is at
    stats,          \* SkillRegenerator.stats
    loc,            \* locals of the running regenerate_skill call
    snapshots,      \* snapshots_dir: skill -> Optional text of <skill>.txt
    docs,           \* skills_dir: skill -> Optional text of SKILLS.md
    git,            \* what the git collaborator was asked to do
    result,         \* Optional return value of regenerate_skills
    trace,          \* history: the collaborator calls of the run, in order
    call            \* history: the last direct call of a SourceFetcher method

vars == <<dry_run, config, skill_names, pc, idx, stats, loc, snapshots,
          docs, git, result, trace, call>>

orch_vars == <<dry_run, config, skill_names, pc, idx, stats, loc,
               docs, git, result, trace>>

----------------------------------------------------------------------------
(* Python values *)

None == <<>>
Some(x) == <<x>>

\* Python truthiness of an Optional[str]: None and "" are falsy.
Truthy(o) == o # None /\ o[1] # ""

\* dict.get(key, default)
Get(d, k, dflt) == IF k \in DOMAIN d THEN d[k] ELSE dflt

Min(a, b) == IF a < b THEN a ELSE b

\* s * n
RECURSIVE Rep(_, _)
Rep(s, n) ==
    IF n = 0 THEN ""
    ELSE LET half == Rep(s, n \div 2) IN
         IF n % 2 = 0 THEN half \o half ELSE half \o half \o s

----------------------------------------------------------------------------
(* source_fetcher.py: snapshots and compute_diff *)

\* What a file opened for reading in text mode gives for its text: every
\* "\r\n" and every other "\r" is read as "\n" (newline=None of open()).
RECURSIVE UniversalNewlines(_)
UniversalNewlines(s) ==
    LET returns == {i \in 1..Len(s) : SubSeq(s, i, i) = "\r"} IN
    IF returns = {} THEN s
    ELSE LET first == CHOOSE i \in returns : \A j \in returns : i <= j
             rest == IF first < Len(s) /\ SubSeq(s, first + 1, first + 1) = "\n"
                     THEN first + 2 ELSE first + 1
         IN SubSeq(s, 1, first - 1) \o "\n"
            \o UniversalNewlines(SubSeq(s, rest, Len(s)))

\* SourceFetcher.load_snapshot: the text of the snapshot file as read_text
\* gives it, None when the file does not exist.  snaps holds the text as
\* write_text wrote it.
load_snapshot(snaps, skill_name) ==
    IF snaps[skill_name] = None THEN None
    ELSE Some(UniversalNewlines(snaps[skill_name][1]))

\* SourceFetcher.save_snapshot: write_text replaces the whole file; an IOError
\* leaves it and returns False.
save_snapshot(snaps, skill_name, content, io_ok) ==
    [ret |-> io_ok,
     snapshots |-> IF io_ok THEN [snaps EXCEPT ![skill_name] = Some(content)]
                   ELSE snaps]

\* SourceFetcher.compute_diff: `if not previous` takes a missing and an empty
\* snapshot alike; the snapshot directory is only read.
compute_diff(snaps, skill_name, content) ==
    LET previous == load_snapshot(snaps, skill_name) IN
    [ret |-> IF ~Truthy(previous) THEN Some(content)
             ELSE IF content = previous[1] THEN None
             ELSE Some(content),
     snapshots |-> snaps]

----------------------------------------------------------------------------
(* Strings *)

Char(s, i) == SubSeq(s, i, i)

StartsWith(s, p) == Len(s) >= Len(p) /\ SubSeq(s, 1, Len(p)) = p

\* Python's `sub in s`
Contains(s, sub) ==
    \E i \in 1..(Len(s) - Len(sub) + 1) : SubSeq(s, i, i + Len(sub) - 1) = sub

IsDigit(c) == c \in {"0", "1", "2", "3", "4", "5", "6", "7", "8", "9"}

UpperAlpha == "ABCDEFGHIJKLMNOPQRSTUVWXYZ"
LowerAlpha == "abcdefghijklmnopqrstuvwxyz"

\* The lower-case letter of every upper-case ASCII letter.
LowerOf ==
    [c \in {Char(UpperAlpha, i) : i \in 1..Len(UpperAlpha)} |->
        Char(LowerAlpha, CHOOSE i \in 1..Len(UpperAlpha) : Char(UpperAlpha, i) = c)]

LowerChar(c) == IF c \in DOMAIN LowerOf THEN LowerOf[c] ELSE c

\* The characters lo..hi of s, in lower case.
RECURSIVE LowerOfRange(_, _, _)
LowerOfRange(s, lo, hi) ==
    IF lo > hi THEN ""
    ELSE IF lo = hi THEN LowerChar(Char(s, lo))
    ELSE LET mid == (lo + hi) \div 2 IN
         LowerOfRange(s, lo, mid) \o LowerOfRange(s, mid + 1, hi)

\* str.lower() on ASCII text
Lower(s) == LowerOfRange(s, 1, Len(s))

IsSpace(c) == c \in {" ", "\n", "\t", "\r", "\f"}

\* str.split(): the maximal runs of non-whitespace characters, in order.
Split(s) ==
    LET starts == {i \in 1..Len(s) :
                      ~IsSpace(Char(s, i)) /\ (i = 1 \/ IsSpace(Char(s, i - 1)))}
        ends == {i \in 1..Len(s) :
                    ~IsSpace(Char(s, i)) /\ (i = Len(s) \/ IsSpace(Char(s, i + 1)))}
        nth(S, k) == CHOOSE i \in S : Cardinality({j \in S : j <= i}) = k
    IN [k \in 1..Cardinality(starts) |-> SubSeq(s, nth(starts, k), nth(ends, k))]

\* str.strip(chars): drop leading and trailing characters that are in chars.
RECURSIVE StripChars(_, _)
StripChars(s, chars) ==
    IF s = "" THEN ""
    ELSE IF Char(s, 1) \in chars THEN StripChars(SubSeq(s, 2, Len(s)), chars)
    ELSE IF Char(s, Len(s)) \in chars THEN StripChars(SubSeq(s, 1, Len(s) - 1), chars)
    ELSE s

\* ", ".join(xs)
RECURSIVE Join(_, _)
Join(xs, sep) ==
    IF xs = <<>> THEN ""
    ELSE IF Len(xs) = 1 THEN xs[1]
    ELSE xs[1] \o sep \o Join(Tail(xs), sep)

\* s[:n]
Prefix(s, n) == SubSeq(s, 1, Min(n, Len(s)))

----------------------------------------------------------------------------
(* Parsed JSON values: a value is tagged with its Python type.             *)

JStr(s) == [t |-> "str", v |-> s]
JList(xs) == [t |-> "list", v |-> xs]
JInt(n) == [t |-> "int", v |-> n]
JDict(d) == [t |-> "dict", v |-> d]

JStrList(xs) == JList([i \in 1..Len(xs) |-> JStr(xs[i])])

IsStr(x) == x.t = "str"
IsList(x) == x.t = "list"
IsDict(x) == x.t = "dict"

\* bool(x)
PyTruthy(x) ==
    CASE x.t = "str" -> x.v # ""
      [] x.t = "list" -> x.v # <<>>
      [] x.t = "dict" -> DOMAIN x.v # {}
      [] x.t = "int" -> x.v # 0

\* a == b
PyEq(a, b) == a.t = b.t /\ a.v = b.v

\* str(x), as it appears in a message
PyStr(x) == IF x.t = "str" THEN x.v ELSE IF x.t = "int" THEN ToString(x.v) ELSE "[...]"

\* len(x) of a str, a list or a dict
PyLen(x) ==
    CASE x.t = "str" -> Len(x.v)
      [] x.t = "list" -> Len(x.v)
      [] x.t = "dict" -> Cardinality(DOMAIN x.v)

\* len(x) raises a TypeError
LenRaises(x) == x.t = "int"

\* hash(x) raises a TypeError
Unhashable(x) == x.t \in {"list", "dict"}

\* The concatenation of a sequence of sequences.
RECURSIVE Flatten(_)
Flatten(ss) == IF ss = <<>> THEN <<>> ELSE Head(ss) \o Flatten(Tail(ss))

----------------------------------------------------------------------------
(* skill_validator.py *)

VAGUE_PATTERNS ==
    <<"should", "try", "might", "possibly", "perhaps",
      "seems", "appears", "may", "can", "could">>

SECTION_LIMITS ==
    [principles |-> <<3, 5>>, rules |-> <<3, 10>>, patterns |-> <<3, 10>>,
     anti_patterns |-> <<2, 5>>, security |-> <<1, 5>>, performance |-> <<1, 5>>,
     tooling |-> <<1, 5>>]

RequiredFields == <<"name", "version", "purpose", "last_updated", "sources">>

RequiredSections ==
    <<"rules", "patterns", "anti_patterns", "security", "performance", "tooling">>

IsoShape == "dddd-dd-ddTdd:dd:ddZ"

\* re.match(r'^\d{4}-\d{2}-\d{2}T\d{2}:\d{2}:\d{2}Z$', s): `$` also matches
\* before one trailing newline.
MatchesIsoDate(s) ==
    /\ \/ Len(s) = Len(IsoShape)
       \/ Len(s) = Len(IsoShape) + 1 /\ Char(s, Len(s)) = "\n"
    /\ \A i \in 1..Len(IsoShape) :
          IF Char(IsoShape, i) = "d" THEN IsDigit(Char(s, i))
          ELSE Char(s, i) = Char(IsoShape, i)

\* A metadata check whose purpose bounds exclude the two boundary lengths.
validate_metadata_exclusive(skill) ==
    LET purpose == Get(skill, "purpose", JStr(""))
        missing ==
            Flatten([i \in 1..Len(RequiredFields) |->
                LET field == RequiredFields[i] IN
                IF field \notin DOMAIN skill \/ ~PyTruthy(skill[field])
                THEN <<"Missing or empty field: " \o field>> ELSE <<>>])
        purpose_err ==
            IF ~PyTruthy(purpose) THEN <<>>
            ELSE IF PyLen(purpose) <= 50 THEN <<"Purpose too short">>
            ELSE IF PyLen(purpose) >= 150 THEN <<"Purpose too long">>
            ELSE <<>>
    IN [errors |-> missing \o purpose_err, warnings |-> <<>>]

\* SkillValidator._validate_metadata
validate_metadata(skill) ==
    LET name == Get(skill, "name", JStr(""))
        version == Get(skill, "version", JStr(""))
        purpose == Get(skill, "purpose", JStr(""))
        last_updated == Get(skill, "last_updated", JStr(""))
        sources == Get(skill, "sources", JList(<<>>))
        missing ==
            Flatten([i \in 1..Len(RequiredFields) |->
                LET field == RequiredFields[i] IN
                IF field \notin DOMAIN skill \/ ~PyTruthy(skill[field])
                THEN <<"Missing or empty field: " \o field>> ELSE <<>>])
        name_err ==
            IF PyTruthy(name) /\ PyLen(name) > 50
            THEN <<"Name too long: " \o ToString(PyLen(name)) \o " chars (max 50)">>
            ELSE <<>>
        version_err ==
            IF PyTruthy(version) /\ PyLen(version) > 20
            THEN <<"Version too long: " \o ToString(PyLen(version)) \o " chars (max 20)">>
            ELSE <<>>
        purpose_err ==
            IF ~PyTruthy(purpose) THEN <<>>
            ELSE IF PyLen(purpose) < 50
            THEN <<"Purpose too short: " \o ToString(PyLen(purpose)) \o " chars (min 50)">>
            ELSE IF PyLen(purpose) > 150
            THEN <<"Purpose too long: " \o ToString(PyLen(purpose)) \o " chars (max 150)">>
            ELSE <<>>
        date_err ==
            IF PyTruthy(last_updated) /\ ~MatchesIsoDate(last_updated.v)
            THEN <<"Invalid ISO date: " \o last_updated.v>> ELSE <<>>
        sources_err ==
            IF ~IsList(sources) THEN <<"sources must be a list">>
            ELSE IF Len(sources.v) = 0 THEN <<"At least one source required">>
            ELSE <<>>
        sources_warn ==
            IF IsList(sources)
            THEN Flatten([i \in 1..Len(sources.v) |->
                    LET source == sources.v[i] IN
                    IF ~IsStr(source) \/ ~StartsWith(source.v, "http")
                    THEN <<"Invalid source URL: " \o PyStr(source)>> ELSE <<>>])
            ELSE <<>>
    IN [errors |-> missing \o name_err \o version_err \o purpose_err \o date_err
                   \o sources_err,
        warnings |-> sources_warn]

\* A section check that lets a section that is not a list pass.
validate_sections_any_type(skill) ==
    [errors |->
        Flatten([i \in 1..Len(RequiredSections) |->
            LET section == RequiredSections[i] IN
            IF section \notin DOMAIN skill THEN <<"Missing section: " \o section>>
            ELSE LET items == skill[section]
                     min_items == SECTION_LIMITS[section][1]
                     max_items == SECTION_LIMITS[section][2]
                 IN IF ~IsList(items) THEN <<>>
                    ELSE IF Len(items.v) < min_items THEN <<section \o ": too few items">>
                    ELSE IF Len(items.v) > max_items THEN <<section \o ": too many items">>
                    ELSE <<>>]),
     warnings |-> <<>>]

\* SkillValidator._validate_sections
validate_sections(skill) ==
    [errors |->
        Flatten([i \in 1..Len(RequiredSections) |->
            LET section == RequiredSections[i] IN
            IF section \notin DOMAIN skill THEN <<"Missing section: " \o section>>
            ELSE LET items == skill[section]
                     min_items == SECTION_LIMITS[section][1]
                     max_items == SECTION_LIMITS[section][2]
                 IN IF ~IsList(items) THEN <<section \o " must be a list">>
                    ELSE IF Len(items.v) < min_items
                    THEN <<section \o ": too few items (" \o ToString(Len(items.v))
                           \o ", min " \o ToString(min_items) \o ")">>
                    ELSE IF Len(items.v) > max_items
                    THEN <<section \o ": too many items (" \o ToString(Len(items.v))
                           \o ", max " \o ToString(max_items) \o ")">>
                    ELSE <<>>]),
     warnings |-> <<>>]

\* The first vague word that stands alone in the lowered item, if any.
VagueIn(item) ==
    LET padded == " " \o Lower(item) \o " "
        hits == {k \in 1..Len(VAGUE_PATTERNS) :
                    Contains(padded, " " \o VAGUE_PATTERNS[k] \o " ")}
    IN IF hits = {} THEN None
       ELSE Some(VAGUE_PATTERNS[CHOOSE k \in hits : \A j \in hits : k <= j])

\* The list sections of the skill, as (section, item) pairs in order.
SectionItems(skill, section) ==
    LET items == Get(skill, section, JList(<<>>)) IN
    IF IsList(items) THEN items.v ELSE <<>>

\* A quality check that takes an item of a length outside 15..150 as an
\* error.
validate_quality_hard_length(skill) ==
    LET per_item(section, item) ==
            IF ~IsStr(item) THEN <<section \o ": non-string item: " \o PyStr(item)>>
            ELSE IF Len(item.v) < 15 THEN <<section \o ": item too short">>
            ELSE IF Len(item.v) > 150 THEN <<section \o ": item too long">>
            ELSE <<>>
        checked(section) ==
            LET items == SectionItems(skill, section) IN
            Flatten([i \in 1..Len(items) |-> per_item(section, items[i])])
    IN [errors |-> Flatten([k \in 1..Len(RequiredSections) |->
                               checked(RequiredSections[k])]),
        warnings |-> <<>>]

\* SkillValidator._validate_quality
validate_quality(skill) ==
    LET per_item(section, item) ==
            IF ~IsStr(item)
            THEN [errors |-> <<section \o ": non-string item: " \o PyStr(item)>>,
                  warnings |-> <<>>]
            ELSE [errors |-> <<>>,
                  warnings |->
                    (IF Len(item.v) < 15
                     THEN <<section \o ": item too short (" \o ToString(Len(item.v))
                            \o " chars): \"" \o item.v \o "\"">>
                     ELSE IF Len(item.v) > 150
                     THEN <<section \o ": item too long (" \o ToString(Len(item.v))
                            \o " chars): \"" \o Prefix(item.v, 40) \o "...\"">>
                     ELSE <<>>)
                    \o (IF VagueIn(item.v) = None THEN <<>>
                        ELSE <<section \o ": vague language \"" \o VagueIn(item.v)[1]
                               \o "\" in: \"" \o Prefix(item.v, 40) \o "...\"">>)]
        checked(section) ==
            LET items == SectionItems(skill, section) IN
            [i \in 1..Len(items) |-> per_item(section, items[i])]
        all_checked == Flatten([k \in 1..Len(RequiredSections) |->
                                   checked(RequiredSections[k])])
        duplicates(section) ==
            LET items == SectionItems(skill, section) IN
            Flatten([i \in 1..Len(items) |->
                IF \E j \in 1..(i - 1) : PyEq(items[j], items[i])
                THEN <<section \o ": duplicate item: \"" \o Prefix(PyStr(items[i]), 40)
                       \o "...\"">>
                ELSE <<>>])
    IN [errors |-> Flatten([i \in 1..Len(all_checked) |-> all_checked[i].errors]),
        warnings |-> Flatten([i \in 1..Len(all_checked) |-> all_checked[i].warnings])
                     \o Flatten([k \in 1..Len(RequiredSections) |->
                                    duplicates(RequiredSections[k])])]

\* The TypeError that validate_skill does not catch: len() of a number in
\* name, version or purpose, re.match on a last_updated that is not a string,
\* `item in seen` on an item that cannot be hashed.
validate_skill_raises(skill) ==
    \/ \E field \in {"name", "version", "purpose"} :
          /\ field \in DOMAIN skill
          /\ PyTruthy(skill[field])
          /\ LenRaises(skill[field])
    \/ /\ "last_updated" \in DOMAIN skill
       /\ PyTruthy(skill.last_updated)
       /\ ~IsStr(skill.last_updated)
    \/ \E k \in 1..Len(RequiredSections) :
          LET items == SectionItems(skill, RequiredSections[k]) IN
          \E i \in 1..Len(items) : Unhashable(items[i])

\* A validation that passes a record only when it has no warning either.
validate_skill_strict(skill) ==
    LET m == validate_metadata(skill)
        s == validate_sections(skill)
        q == validate_quality(skill)
        errors == m.errors \o s.errors \o q.errors
        warnings == m.warnings \o s.warnings \o q.warnings
    IN <<Len(errors) = 0 /\ Len(warnings) = 0, errors, warnings>>

\* A validation that stops at the first error it finds.
validate_skill_first_error(skill) ==
    LET m == validate_metadata(skill)
        s == validate_sections(skill)
        q == validate_quality(skill)
        errors == m.errors \o s.errors \o q.errors
        warnings == m.warnings \o s.warnings \o q.warnings
    IN <<Len(errors) = 0, SubSeq(errors, 1, 1), warnings>>

\* SkillValidator.validate_skill: (is_valid, errors, warnings)
validate_skill(skill) ==
    LET m == validate_metadata(skill)
        s == validate_sections(skill)
        q == validate_quality(skill)
        errors == m.errors \o s.errors \o q.errors
        warnings == m.warnings \o s.warnings \o q.warnings
    IN <<Len(errors) = 0, errors, warnings>>

\* A schema check that does not ask for tooling.
validate_json_schema_five_lists(data) ==
    IF ~IsDict(data) THEN <<FALSE, <<"Expected JSON object">>>>
    ELSE
    LET required_lists == SubSeq(RequiredSections, 1, Len(RequiredSections) - 1)
        required_strings == <<"name", "version", "purpose">>
        list_errors ==
            Flatten([i \in 1..Len(required_lists) |->
                LET field == required_lists[i] IN
                IF field \notin DOMAIN data.v THEN <<"Missing field: " \o field>>
                ELSE IF ~IsList(data.v[field]) THEN <<field \o " must be a list">>
                ELSE <<>>])
        string_errors ==
            Flatten([i \in 1..Len(required_strings) |->
                LET field == required_strings[i] IN
                IF field \notin DOMAIN data.v THEN <<"Missing field: " \o field>>
                ELSE IF ~IsStr(data.v[field]) THEN <<field \o " must be a string">>
                ELSE <<>>])
        errors == list_errors \o string_errors
    IN <<Len(errors) = 0, errors>>

\* SkillValidator.validate_json_schema: (is_valid, errors)
validate_json_schema(data) ==
    IF ~IsDict(data) THEN <<FALSE, <<"Expected JSON object">>>>
    ELSE
    LET required_lists == RequiredSections
        required_strings == <<"name", "version", "purpose">>
        list_errors ==
            Flatten([i \in 1..Len(required_lists) |->
                LET field == required_lists[i] IN
                IF field \notin DOMAIN data.v THEN <<"Missing field: " \o field>>
                ELSE IF ~IsList(data.v[field]) THEN <<field \o " must be a list">>
                ELSE <<>>])
        string_errors ==
            Flatten([i \in 1..Len(required_strings) |->
                LET field == required_strings[i] IN
                IF field \notin DOMAIN data.v THEN <<"Missing field: " \o field>>
                ELSE IF ~IsStr(data.v[field]) THEN <<field \o " must be a string">>
                ELSE <<>>])
        errors == list_errors \o string_errors
    IN <<Len(errors) = 0, errors>>

----------------------------------------------------------------------------
(* skill_normalizer.py *)

\* d[k] = v on a dict
SetKey(d, k, v) == [x \in DOMAIN d \cup {k} |-> IF x = k THEN v ELSE d[x]]

\* max_chars in normalize
MaxContentChars == 50000

\* The content that goes into the prompt: cut at max_chars, with a marker.
TruncateContent(content) ==
    IF Len(content) > MaxContentChars
    THEN Prefix(content, MaxContentChars) \o "\n\n[... content truncated ...]"
    ELSE content

\* The crude URL extraction of normalize: the whitespace-delimited parts that
\* begin with http:// or https://, without surrounding '.', ',' or ';'.
ExtractUrls(content_text) ==
    LET parts == Split(content_text)
        keep == SelectSeq(parts, LAMBDA part :
                    StartsWith(part, "http://") \/ StartsWith(part, "https://"))
    IN [i \in 1..Len(keep) |-> StripChars(keep[i], {".", ",", ";"})]

\* The purpose step of normalize.
EnsurePurpose(purpose0, skill_name) ==
    LET purpose == IF purpose0 = ""
                   THEN "Normalized best practices and guidelines for "
                        \o skill_name \o "."
                   ELSE purpose0
        suffix == " This document summarizes actionable best practices, patterns, and tooling for "
                  \o skill_name
                  \o " to help maintainers and engineers follow consistent approaches."
    IN IF Len(purpose) < 50 THEN Prefix(purpose \o suffix, 150) ELSE purpose

\* A post-processing that leaves a sources field of the response alone.
PostProcess_keeping(response, content, skill_name, skill_version, sources, utcnow) ==
    LET n1 == SetKey(response.v, "version", JStr(skill_version))
        n2 == SetKey(n1, "last_updated", JStr(utcnow))
        n3 == IF "sources" \in DOMAIN n2 THEN n2
              ELSE SetKey(n2, "sources",
                          IF sources # None /\ Len(sources[1]) > 0
                          THEN JStrList(sources[1])
                          ELSE JStrList(ExtractUrls(content)))
        purpose == Get(n3, "purpose", JStr(""))
    IN SetKey(n3, "purpose", JStr(EnsurePurpose(purpose.v, skill_name)))

\* The post-processing of normalize (version, last_updated, sources, purpose)
\* on a response that passed the schema check.  `sources` is Optional.
PostProcess(response, content, skill_name, skill_version, sources, utcnow) ==
    LET n1 == SetKey(response.v, "version", JStr(skill_version))
        n2 == SetKey(n1, "last_updated", JStr(utcnow))
        n3 == SetKey(n2, "sources",
                     IF sources # None /\ Len(sources[1]) > 0
                     THEN JStrList(sources[1])
                     ELSE JStrList(ExtractUrls(content)))
        purpose == Get(n3, "purpose", JStr(""))
    IN SetKey(n3, "purpose", JStr(EnsurePurpose(purpose.v, skill_name)))

\* A normalize without the full validation gate.
normalize_unvalidated(content0, skill_name, skill_version, sources, response_json, utcnow) ==
    IF content0 = "" THEN [ret |-> None, gate |-> "content", llm_called |-> FALSE]
    ELSE
    LET content == TruncateContent(content0) IN
    IF response_json = None \/ ~PyTruthy(response_json[1])
    THEN [ret |-> None, gate |-> "llm", llm_called |-> TRUE]
    ELSE IF ~validate_json_schema(response_json[1])[1]
    THEN [ret |-> None, gate |-> "schema", llm_called |-> TRUE]
    ELSE [ret |-> Some(PostProcess(response_json[1], content, skill_name,
                                   skill_version, sources, utcnow)),
          gate |-> "ok", llm_called |-> TRUE]

\* A normalize that calls the model before it looks at the content.
normalize_model_first(content0, skill_name, skill_version, sources, response_json, utcnow) ==
    IF content0 = "" THEN [ret |-> None, gate |-> "content", llm_called |-> TRUE]
    ELSE
    LET content == TruncateContent(content0) IN
    IF response_json = None \/ ~PyTruthy(response_json[1])
    THEN [ret |-> None, gate |-> "llm", llm_called |-> TRUE]
    ELSE IF ~validate_json_schema(response_json[1])[1]
    THEN [ret |-> None, gate |-> "schema", llm_called |-> TRUE]
    ELSE
    LET normalized == PostProcess(response_json[1], content, skill_name,
                                  skill_version, sources, utcnow)
        val_errors == validate_skill(normalized)[2]
    IN IF validate_skill_raises(normalized)
       THEN [ret |-> None, gate |-> "raise", llm_called |-> TRUE]
       ELSE IF val_errors # <<>>
       THEN [ret |-> None, gate |-> "validation", llm_called |-> TRUE]
       ELSE [ret |-> Some(normalized), gate |-> "ok", llm_called |-> TRUE]

\* SkillNormalizer.normalize.  response_json is what llm.generate_json returns
\* for the prompt, utcnow the formatted datetime.utcnow().  gate names the
\* step that made it return None, "raise" that validate_skill raised.
normalize(content0, skill_name, skill_version, sources, response_json, utcnow) ==
    IF content0 = "" THEN [ret |-> None, gate |-> "content", llm_called |-> FALSE]
    ELSE
    LET content == TruncateContent(content0) IN
    IF response_json = None \/ ~PyTruthy(response_json[1])
    THEN [ret |-> None, gate |-> "llm", llm_called |-> TRUE]
    ELSE IF ~validate_json_schema(response_json[1])[1]
    THEN [ret |-> None, gate |-> "schema", llm_called |-> TRUE]
    ELSE
    LET normalized == PostProcess(response_json[1], content, skill_name,
                                  skill_version, sources, utcnow)
        val_errors == validate_skill(normalized)[2]
    IN IF validate_skill_raises(normalized)
       THEN [ret |-> None, gate |-> "raise", llm_called |-> TRUE]
       ELSE IF val_errors # <<>>
       THEN [ret |-> None, gate |-> "validation", llm_called |-> TRUE]
       ELSE [ret |-> Some(normalized), gate |-> "ok", llm_called |-> TRUE]

\* json.dumps of a list of strings
JsonDumps(x) ==
    IF IsList(x)
    THEN "[" \o Join([i \in 1..Len(x.v) |-> "\"" \o PyStr(x.v[i]) \o "\""], ", ") \o "]"
    ELSE "\"" \o PyStr(x) \o "\""

\* What `for item in x` yields, as text: the items of a list, the characters
\* of a string.
Bullets(x) ==
    IF IsList(x) THEN Join([i \in 1..Len(x.v) |-> "- " \o PyStr(x.v[i]) \o "\n"], "")
    ELSE Join([i \in 1..Len(x.v) |-> "- " \o Char(x.v, i) \o "\n"], "")

\* A list section that is rendered whenever its key is present.
MdSection_always(skill, key, header) ==
    IF key \in DOMAIN skill
    THEN "## " \o header \o "\n" \o Bullets(skill[key]) \o "\n"
    ELSE ""

\* One list section of the document: rendered when the key is present and
\* its value is truthy.
MdSection(skill, key, header) ==
    IF key \in DOMAIN skill /\ PyTruthy(skill[key])
    THEN "## " \o header \o "\n" \o Bullets(skill[key]) \o "\n"
    ELSE ""

\* `skill["sources"] = sources`: the caller's dict after skill_to_markdown.
skill_after_markdown(skill0, sources) == SetKey(skill0, "sources", sources)

\* SkillNormalizer.skill_to_markdown(skill, sources); sources is a list value.
skill_to_markdown(skill0, sources) ==
    LET skill == skill_after_markdown(skill0, sources)
        name == PyStr(Get(skill, "name", JStr("Unknown")))
        version_note == Get(skill, "version_notes", JStr(""))
    IN "---\n"
       \o "name: " \o name \o "\n"
       \o "version: " \o PyStr(Get(skill, "version", JStr("unknown"))) \o "\n"
       \o "domains: " \o JsonDumps(Get(skill, "domains", JStrList(<<"general">>))) \o "\n"
       \o "lastGenerated: " \o PyStr(Get(skill, "last_updated", JStr(""))) \o "\n"
       \o "---\n\n"
       \o "# Skill: " \o name \o "\n\n"
       \o (IF "purpose" \in DOMAIN skill
           THEN "## Purpose\n" \o PyStr(skill["purpose"]) \o "\n\n" ELSE "")
       \o (IF "version" \in DOMAIN skill
           THEN "## Version\n" \o PyStr(skill["version"])
                \o (IF PyTruthy(version_note) THEN ". " \o PyStr(version_note) ELSE "")
                \o "\n\n"
           ELSE "")
       \o MdSection(skill, "principles", "Principles")
       \o MdSection(skill, "rules", "Mandatory Rules")
       \o MdSection(skill, "patterns", "Recommended Patterns")
       \o MdSection(skill, "anti_patterns", "Anti-Patterns")
       \o MdSection(skill, "security", "Security")
       \o MdSection(skill, "performance", "Performance")
       \o MdSection(skill, "tooling", "Tooling")
       \o "## Last-Updated\n" \o PyStr(Get(skill, "last_updated", JStr("unknown"))) \o "\n\n"
       \o "## Sources\n"
       \o Bullets(sources)

----------------------------------------------------------------------------
(* source_fetcher.py: descriptors and fetch_sources *)

\* The skills of the runs: one without a descriptor file, one whose file
\* cannot be read, one with a url source.
Skills == {"nodesc", "locked", "react"}

\* The state of <skill>-sources.json for each skill name: absent, not
\* parseable as JSON, not readable (open() raises), or a dict.
DescriptorFile(skill_name) ==
    CASE skill_name = "nodesc" -> [state |-> "absent", json |-> <<>>]
      [] skill_name = "badjson" -> [state |-> "corrupt", json |-> <<>>]
      [] skill_name = "locked" -> [state |-> "unreadable", json |-> <<>>]
      [] skill_name = "nosrc" ->
            [state |-> "ok",
             json |-> [skill |-> "nosrc", version |-> "1.0", sources |-> <<>>]]
      [] skill_name = "react" ->
            [state |-> "ok",
             json |-> [skill |-> "react", version |-> "18.2",
                       sources |-> <<[type |-> "url",
                                      url |-> "https://react.dev/learn"]>>]]
      [] skill_name = "vue" ->
            [state |-> "ok",
             json |-> [skill |-> "vue",
                       sources |-> <<[type |-> "github_file", repo |-> "vuejs/core",
                                      path |-> "README.md"]>>]]
      [] skill_name = "svelte" ->
            [state |-> "ok",
             json |-> [skill |-> "svelte", version |-> "5",
                       sources |-> <<[type |-> "url", url |-> "https://svelte.dev/docs"],
                                     [type |-> "github_releases",
                                      repo |-> "sveltejs/svelte"]>>]]

\* SourceFetcher.load_source_descriptor: [raised, ret]; ret is None for a
\* missing or unparseable file; an error of open() is not caught.
load_source_descriptor(skill_name) ==
    LET f == DescriptorFile(skill_name) IN
    CASE f.state = "absent" -> [raised |-> FALSE, ret |-> None]
      [] f.state = "corrupt" -> [raised |-> FALSE, ret |-> None]
      [] f.state = "unreadable" -> [raised |-> TRUE, ret |-> None]
      [] f.state = "ok" -> [raised |-> FALSE, ret |-> Some(f.json)]

\* What one source adds to the combined text.  answer is what the HTTP
\* collaborator gave for it: text is the Optional result of fetch_url (None on
\* a RequestException), releases the Optional result of fetch_github_releases.
SourceSection(source, answer) ==
    LET source_type == Get(source, "type", "") IN
    CASE source_type = "url" ->
            IF Get(source, "url", "") # "" /\ Truthy(answer.text)
            THEN "## Source: " \o source.url \o "\n\n" \o answer.text[1] \o "\n\n"
            ELSE ""
      [] source_type = "github_file" ->
            IF Get(source, "repo", "") # "" /\ Get(source, "path", "") # ""
               /\ Truthy(answer.text)
            THEN "## GitHub: " \o source.repo \o "/" \o source.path \o "\n\n"
                 \o answer.text[1] \o "\n\n"
            ELSE ""
      [] source_type = "github_releases" ->
            IF Get(source, "repo", "") # "" /\ answer.releases # None
            THEN Join([i \in 1..Len(answer.releases[1]) |->
                          "## Release: "
                          \o Get(answer.releases[1][i], "tag_name", "unknown")
                          \o "\n\n" \o Get(answer.releases[1][i], "body", "")
                          \o "\n\n"], "")
            ELSE ""
      [] OTHER -> ""

\* fetch_sources returns the combined text only when it is longer than this.
MinCombinedLen == 100

\* SourceFetcher.fetch_sources: [raised, ret].  http[i] is the collaborator's
\* answer for source i, now_iso is datetime.now().isoformat().
fetch_sources(skill_name, http, now_iso) ==
    LET d == load_source_descriptor(skill_name) IN
    IF d.raised THEN [raised |-> TRUE, ret |-> None]
    ELSE IF d.ret = None \/ DOMAIN d.ret[1] = {} THEN [raised |-> FALSE, ret |-> None]
    ELSE
    LET sources == Get(d.ret[1], "sources", <<>>)
        header == "# Sources for " \o skill_name \o "\n\n"
                  \o "Generated: " \o now_iso \o "\n\n"
        combined == header \o Join([i \in 1..Len(sources) |->
                                       SourceSection(sources[i], http[i])], "")
    IN IF sources = <<>> THEN [raised |-> FALSE, ret |-> None]
       ELSE [raised |-> FALSE,
             ret |-> IF Len(combined) > MinCombinedLen THEN Some(combined) ELSE None]

----------------------------------------------------------------------------
(* github_sync.py *)

\* GitHubSync.create_branch: checkout -b, and on failure plain checkout.
create_branch(checkout_b_ok, checkout_ok) ==
    IF ~checkout_b_ok THEN checkout_ok ELSE TRUE

\* A create_pr_branch that does not look at what create_branch returned.
create_pr_branch_unchecked(timestamp, checkout_b_ok, checkout_ok) ==
    "generate/skills-" \o timestamp

\* GitHubSync.create_pr_branch: the branch name, "main" when creation failed.
create_pr_branch(timestamp, checkout_b_ok, checkout_ok) ==
    LET branch_name == "generate/skills-" \o timestamp IN
    IF create_branch(checkout_b_ok, checkout_ok) THEN branch_name ELSE "main"

\* GitHubSync.commit_skill(skill_name, sources): "true", "false" or "raise".
\* sources are the values of the caller's list; s.split("/") exists on
\* strings only, so it raises AttributeError for any other value.
commit_skill(skill_name, sources, add_ok, commit_ok) ==
    IF ~add_ok THEN "false"
    ELSE IF \E i \in 1..Min(2, Len(sources)) : ~IsStr(sources[i]) THEN "raise"
    ELSE IF ~commit_ok THEN "false"
    ELSE "true"

\* GitHubSync.push_changes(branch): [pushed, ret].  push_branch runs only when
\* `git status --porcelain` reports uncommitted changes.
\* GitHubSync.has_changes(): uncommitted changes in the working tree, as
\* `git status --porcelain` lists them; False when the command fails.
has_changes(dirty, status_ok) == status_ok /\ dirty

push_changes(branch, changed, push_ok) ==
    IF ~changed THEN [pushed |-> FALSE, ret |-> TRUE]
    ELSE [pushed |-> TRUE, ret |-> push_ok]

----------------------------------------------------------------------------
(* main.py: SkillRegenerator *)

\* Bound on the length of the skill list of a run.
MaxSkills == 2

RECURSIVE SeqsUpTo(_, _)
SeqsUpTo(S, n) ==
    IF n = 0 THEN {<<>>}
    ELSE LET shorter == SeqsUpTo(S, n - 1) IN
         shorter \cup {Append(q, x) : q \in {r \in shorter : Len(r) = n - 1}, x \in S}

SkillLists == SeqsUpTo(Skills, MaxSkills)

\* What load_skills_registry may give when no skill is named.
RegistryLists == {<<>>, <<"react", "nodesc">>}

BodyPlain == "Components are functions that return markup and take props."
BodyWithUrl == "Hooks reference: see https://react.dev/reference/react."

TextAnswers ==
    {[text |-> t, releases |-> None] :
        t \in {None, Some(BodyPlain), Some(BodyWithUrl)}}

ReleaseAnswers ==
    {[text |-> None, releases |-> r] :
        r \in {None, Some(<<>>),
               Some(<<[tag_name |-> "v3.4.0", body |-> "Faster parser."],
                      [body |-> "Minor fixes."]>>)}}

\* The answers the HTTP collaborator can give for one source.
AnswersFor(source) ==
    IF Get(source, "type", "") = "github_releases" THEN ReleaseAnswers
    ELSE TextAnswers

\* datetime.now().isoformat(): no fraction when the microsecond is 0.
NowIsos == {"2026-02-06T10:00:00.123456", "2026-02-06T10:00:01"}

\* datetime.utcnow().strftime("%Y-%m-%dT%H:%M:%SZ")
UtcNows == {"2026-02-06T10:00:00Z"}

\* datetime.now().strftime("%Y%m%d_%H%M%S")
BranchStamps == {"20260206_100000"}

GoodResponse ==
    [name |-> JStr("React"),
     version |-> JStr("latest"),
     purpose |-> JStr("Best practices for React."),
     principles |-> JStrList(<<"Keep components pure", "Lift shared state up",
                               "Prefer composition">>),
     rules |-> JStrList(<<"Give every list item a stable key",
                          "Call hooks only at the top level",
                          "Never mutate state directly">>),
     patterns |-> JStrList(<<"Extract custom hooks for reuse",
                             "Colocate state with its user",
                             "Derive values during render">>),
     anti_patterns |-> JStrList(<<"Using array index as a key",
                                  "Copying props into state">>),
     security |-> JStrList(<<"Sanitize HTML before dangerouslySetInnerHTML">>),
     performance |-> JStrList(<<"Memoize expensive computations with useMemo">>),
     tooling |-> JStrList(<<"Enable the eslint-plugin-react-hooks rules">>),
     sources |-> JStrList(<<"https://model.example/made-up">>)]

\* Too few rules: passes the schema check, fails full validation.
FewRulesResponse ==
    [GoodResponse EXCEPT !.rules = JStrList(<<"Give every list item a stable key">>)]

\* Only warnings: a vague word, a short item, a duplicate.
WarningsResponse ==
    [GoodResponse EXCEPT
        !.patterns = JStrList(<<"You should extract custom hooks", "Short",
                                "You should extract custom hooks">>)]

\* No tooling field: fails the schema check.
NoToolingResponse ==
    [k \in DOMAIN GoodResponse \ {"tooling"} |-> GoodResponse[k]]

\* What llm.generate_json can return: None (no response, or not JSON), or
\* the parsed value.
LLMResults ==
    {None, Some(JList(<<JStr("not an object")>>)), Some(JDict(<<>>)),
     Some(JDict(NoToolingResponse)), Some(JDict(FewRulesResponse)),
     Some(JDict(WarningsResponse)), Some(JDict(GoodResponse))}

\* No direct call of a SourceFetcher method was made.
NoCall == [op |-> "none", skill |-> "", content |-> "", before |-> <<>>,
           ret |-> None, ok |-> TRUE, saved |-> <<>>]

NoLocals ==
    [skill_name |-> "", source_descriptor |-> None, content |-> None,
     diff |-> None, normalized |-> None]

NoStats ==
    [processed |-> 0, updated |-> 0, skipped |-> 0, failed |-> 0, errors |-> <<>>]

NoGit == [branch |-> "main", branches |-> <<>>, commits |-> <<>>, pushes |-> <<>>]

\* The snapshot directory at the start of a run: empty, or holding what an
\* earlier fetch of react combined.
InitialSnapshots ==
    {[s \in Skills |-> None],
     [s \in Skills |->
        IF s = "react"
        THEN fetch_sources("react", <<[text |-> Some(BodyPlain), releases |-> None]>>,
                           "2026-02-06T10:00:00.123456").ret
        ELSE None]}

Ev(op, i, skill_name, out) == [op |-> op, i |-> i, skill |-> skill_name, out |-> out]

\* A skip that is recorded as a failure with an error string.
CountSkipped_as_failed(st) ==
    [st EXCEPT !.failed = @ + 1, !.errors = Append(@, "skipped")]

\* self.stats['skipped'] += 1
CountSkipped(st) == [st EXCEPT !.skipped = @ + 1]

\* A failure that records its error string and forgets the counter.
CountFailed_uncounted(st, message) == [st EXCEPT !.errors = Append(@, message)]

\* A failure that is counted and leaves no error string.
CountFailed_silent(st, message) == [st EXCEPT !.failed = @ + 1]

\* self.stats['failed'] += 1 with its entry of self.stats['errors']
CountFailed(st, message) ==
    [st EXCEPT !.failed = @ + 1, !.errors = Append(@, message)]

\* self.stats['failed'] += 1 alone (persist and commit failures)
CountFailedOnly(st) == [st EXCEPT !.failed = @ + 1]

CountUpdated(st) == [st EXCEPT !.updated = @ + 1]

\* Config.validate: (is_valid, errors)
Config_validate(cfg) ==
    LET errors ==
            (IF cfg.llm_base_url = "" THEN <<"LLM_BASE_URL not set">> ELSE <<>>)
            \o (IF cfg.llm_send_api_key /\ cfg.llm_api_key = ""
                THEN <<"LLM_API_KEY not set (required when LLM_SEND_API_KEY=true)">>
                ELSE <<>>)
            \o (IF cfg.llm_model = "" THEN <<"LLM_MODEL not set">> ELSE <<>>)
            \o (IF ~cfg.skills_dir_exists
                THEN <<"Skills directory not found: packages/skills-registry/skills">>
                ELSE <<>>)
    IN <<Len(errors) = 0, errors>>

GoodConfig ==
    [llm_base_url |-> "https://llm.example/v1", llm_send_api_key |-> TRUE,
     llm_api_key |-> "sk-test", llm_model |-> "gpt-4o-mini",
     skills_dir_exists |-> TRUE]

\* The configurations of the runs: a complete one, and one for each thing
\* validate() can miss.
Configs ==
    {GoodConfig,
     [GoodConfig EXCEPT !.llm_base_url = ""],
     [GoodConfig EXCEPT !.llm_api_key = ""],
     [GoodConfig EXCEPT !.llm_model = ""],
     [GoodConfig EXCEPT !.skills_dir_exists = FALSE]}

\* What Config.validate()[0] returns in this run.
config_valid == Config_validate(config)[1]

Init ==
    /\ dry_run \in BOOLEAN
    /\ config \in Configs
    /\ skill_names \in SkillLists
    /\ pc = "start"
    /\ idx = 0
    /\ stats = NoStats
    /\ loc = NoLocals
    /\ snapshots \in InitialSnapshots
    /\ docs = [s \in Skills |-> None]
    /\ git = NoGit
    /\ result = None
    /\ trace = <<>>
    /\ call = NoCall

\* The skill the for loop of regenerate_skills is at.
CurrentSkill == skill_names[idx]

\* return from regenerate_skill, back to the for loop
EndSkill ==
    /\ pc' = "loop"
    /\ loc' = NoLocals

\* A run that goes on with any configuration.
AbortsRun_never(cfg) == FALSE

\* `if not self.config.validate()[0]: return 1`
AbortsRun(cfg) == ~Config_validate(cfg)[1]

\* The git record and the calls of one create_pr_branch().
CreatedBranch(g, stamp, checkout_b_ok, checkout_ok) ==
    LET branch_name == "generate/skills-" \o stamp
        created == create_branch(checkout_b_ok, checkout_ok)
        branch == create_pr_branch(stamp, checkout_b_ok, checkout_ok)
    IN [git |-> [g EXCEPT !.branch = branch,
                          !.branches = IF created THEN Append(@, branch_name) ELSE @],
        events |-> <<Ev("create_branch", 0, branch_name,
                        IF created THEN "true" ELSE "false"),
                     Ev("create_pr_branch", 0, "", branch)>>]

\* A working branch that is created in a dry run as well.
working_branch_always(dry, g, stamp, checkout_b_ok, checkout_ok) ==
    CreatedBranch(g, stamp, checkout_b_ok, checkout_ok)

\* `branch = 'main'`, and `branch = self.git.create_pr_branch()` unless the
\* run is a dry run: the git record and the calls made.
working_branch(dry, g, stamp, checkout_b_ok, checkout_ok) ==
    IF dry THEN [git |-> g, events |-> <<>>]
    ELSE CreatedBranch(g, stamp, checkout_b_ok, checkout_ok)

\* regenerate_skills up to the for loop: configuration, skill list, branch.
BeginRun ==
    /\ pc = "start"
    /\ UNCHANGED <<dry_run, config, idx, stats, loc, snapshots, docs, call>>
    /\ IF AbortsRun(config)
       THEN /\ result' = Some(1)
            /\ pc' = "done"
            /\ UNCHANGED <<skill_names, git, trace>>
       ELSE \E registry \in RegistryLists, stamp \in BranchStamps,
               checkout_b_ok \in BOOLEAN, checkout_ok \in BOOLEAN :
            \E names \in {IF skill_names = <<>> THEN registry ELSE skill_names},
               b \in {working_branch(dry_run, git, stamp, checkout_b_ok, checkout_ok)} :
               /\ skill_names' = names
               /\ IF names = <<>>
                  THEN /\ result' = Some(0)
                       /\ pc' = "done"
                       /\ UNCHANGED <<git, trace>>
                  ELSE /\ result' = None
                       /\ pc' = "loop"
                       /\ git' = b.git
                       /\ trace' = trace \o b.events

\* A for loop that also ends at the first failed skill.
LoopDone_at_failure(names, i, st) == i = Len(names) \/ st.failed > 0

\* `for skill_name in skill_names` is exhausted after i skills.
LoopDone(names, i, st) == i = Len(names)

\* The for loop takes the next skill and regenerate_skill counts it.
NextSkill ==
    /\ pc = "loop"
    /\ ~LoopDone(skill_names, idx, stats)
    /\ idx' = idx + 1
    /\ stats' = [stats EXCEPT !.processed = @ + 1]
    /\ loc' = [NoLocals EXCEPT !.skill_name = skill_names[idx + 1]]
    /\ trace' = Append(trace, Ev("regenerate_skill", idx + 1, skill_names[idx + 1], ""))
    /\ pc' = "load"
    /\ UNCHANGED <<dry_run, config, skill_names, snapshots, docs, git, result, call>>

\* regenerate_skill: load the source descriptor.
LoadDescriptor ==
    /\ pc = "load"
    /\ UNCHANGED <<dry_run, config, skill_names, idx, snapshots, docs, git,
                   result, call>>
    /\ \E d \in {load_source_descriptor(CurrentSkill)} :
       IF d.raised
       THEN /\ stats' = CountFailed(stats, CurrentSkill \o ": [Errno 13] Permission denied")
            /\ trace' = trace \o <<Ev("load_source_descriptor", idx, CurrentSkill, "raise"),
                                   Ev("counted", idx, CurrentSkill, "failed")>>
            /\ EndSkill
       ELSE IF d.ret = None \/ DOMAIN d.ret[1] = {}
       THEN /\ stats' = CountSkipped(stats)
            /\ trace' = trace \o <<Ev("load_source_descriptor", idx, CurrentSkill, "none"),
                                   Ev("counted", idx, CurrentSkill, "skipped")>>
            /\ EndSkill
       ELSE /\ stats' = stats
            /\ trace' = Append(trace, Ev("load_source_descriptor", idx, CurrentSkill, "value"))
            /\ loc' = [loc EXCEPT !.source_descriptor = d.ret]
            /\ pc' = "fetch"

\* regenerate_skill: fetch the source content.  crash is an exception other
\* than a RequestException inside fetch_sources.
FetchSources ==
    /\ pc = "fetch"
    /\ UNCHANGED <<dry_run, config, skill_names, idx, snapshots, docs, git,
                   result, call>>
    /\ LET sources == Get(loc.source_descriptor[1], "sources", <<>>) IN
       \E http \in [1..Len(sources) -> UNION {AnswersFor(sources[i]) : i \in 1..Len(sources)}],
          now_iso \in NowIsos, crash \in BOOLEAN :
       /\ \A i \in 1..Len(sources) : http[i] \in AnswersFor(sources[i])
       /\ \E r \in {fetch_sources(CurrentSkill, http, now_iso)} :
          \E asked \in {[k \in 1..Len(sources) |->
                            Ev("http", idx, CurrentSkill,
                               IF http[k].text = None /\ http[k].releases = None
                               THEN "error" ELSE "ok")]} :
          IF crash \/ r.raised
          THEN /\ stats' = CountFailed(stats, CurrentSkill
                              \o " sources: 'NoneType' object has no attribute 'get'")
               /\ trace' = trace \o asked
                                  \o <<Ev("fetch_sources", idx, CurrentSkill, "raise"),
                                      Ev("counted", idx, CurrentSkill, "failed")>>
               /\ EndSkill
          ELSE IF ~Truthy(r.ret)
          THEN /\ stats' = CountSkipped(stats)
               /\ trace' = trace \o asked
                                  \o <<Ev("fetch_sources", idx, CurrentSkill, "none"),
                                      Ev("counted", idx, CurrentSkill, "skipped")>>
               /\ EndSkill
          ELSE /\ stats' = stats
               /\ trace' = trace \o asked
                                  \o <<Ev("fetch_sources", idx, CurrentSkill, "value")>>
               /\ loc' = [loc EXCEPT !.content = r.ret]
               /\ pc' = "diff"

\* The except Exception clause of the for loop of regenerate_skills.
CaughtInLoop(st, skill_name, text) == CountFailed(st, skill_name \o ": " \o text)

\* regenerate_skill: compare with the snapshot.  crash is an error of
\* read_text that load_snapshot does not catch (a UnicodeDecodeError).
ComputeDiff ==
    /\ pc = "diff"
    /\ UNCHANGED <<dry_run, config, skill_names, idx, docs, git, result, call>>
    /\ \E crash \in BOOLEAN, r \in {compute_diff(snapshots, CurrentSkill, loc.content[1])} :
       IF crash
       THEN /\ stats' = CaughtInLoop(stats, CurrentSkill,
                                     "'utf-8' codec can't decode byte 0xff")
            /\ trace' = trace \o <<Ev("compute_diff", idx, CurrentSkill, "raise"),
                                   Ev("counted", idx, CurrentSkill, "failed")>>
            /\ snapshots' = snapshots
            /\ EndSkill
       ELSE IF r.ret = None
       THEN /\ stats' = CountSkipped(stats)
            /\ trace' = trace \o <<Ev("compute_diff", idx, CurrentSkill, "none"),
                                   Ev("counted", idx, CurrentSkill, "skipped")>>
            /\ snapshots' = r.snapshots
            /\ EndSkill
       ELSE /\ stats' = stats
            /\ trace' = Append(trace, Ev("compute_diff", idx, CurrentSkill, "value"))
            /\ snapshots' = r.snapshots
            /\ loc' = [loc EXCEPT !.diff = r.ret]
            /\ pc' = "normalize"

\* regenerate_skill: normalize via the model.  crash is an exception raised
\* inside the model call (for one, an IndexError on an empty choices list).
Normalize ==
    /\ pc = "normalize"
    /\ UNCHANGED <<dry_run, config, skill_names, idx, snapshots, docs, git,
                   result, call>>
    /\ \E response_json \in LLMResults, utcnow \in UtcNows, crash \in BOOLEAN :
       \E r \in {IF crash THEN [ret |-> None, gate |-> "raise", llm_called |-> TRUE]
                 ELSE normalize(loc.diff[1], CurrentSkill,
                                Get(loc.source_descriptor[1], "version", "unknown"),
                                None, response_json, utcnow)} :
       IF r.gate = "raise"
       THEN /\ stats' = CountFailed(stats, CurrentSkill
                                    \o " normalize: list index out of range")
            /\ trace' = trace \o <<Ev("generate_json", idx, CurrentSkill, "raise"),
                                   Ev("normalize", idx, CurrentSkill, "raise"),
                                   Ev("counted", idx, CurrentSkill, "failed")>>
            /\ EndSkill
       ELSE IF r.ret = None
       THEN /\ stats' = CountFailed(stats, CurrentSkill \o ": Invalid LLM output")
            /\ trace' = trace
                        \o (IF r.llm_called
                            THEN <<Ev("generate_json", idx, CurrentSkill, "called")>>
                            ELSE <<>>)
                        \o <<Ev("normalize", idx, CurrentSkill, "none"),
                             Ev("counted", idx, CurrentSkill, "failed")>>
            /\ EndSkill
       ELSE /\ stats' = stats
            /\ trace' = trace \o <<Ev("generate_json", idx, CurrentSkill, "called"),
                                   Ev("normalize", idx, CurrentSkill, "record")>>
            /\ loc' = [loc EXCEPT !.normalized = r.ret]
            /\ pc' = "publish"

\* The number of names on the left of `is_valid, errors = ...validate_skill(...)`
UnpackTargets == 2

\* SkillRegenerator.save_skill_to_registry: [raised, ret, docs].  mkdir is
\* outside the try, the write inside it; nothing is touched in a dry run.
save_skill_to_registry(dc, skill_dict, skill_name, dry, mkdir_ok, write_ok) ==
    IF dry THEN [raised |-> FALSE, ret |-> TRUE, docs |-> dc]
    ELSE IF ~mkdir_ok THEN [raised |-> TRUE, ret |-> FALSE, docs |-> dc]
    ELSE IF ~write_ok THEN [raised |-> FALSE, ret |-> FALSE, docs |-> dc]
    ELSE [raised |-> FALSE, ret |-> TRUE,
          docs |-> [dc EXCEPT ![skill_name] =
                      Some(skill_to_markdown(skill_dict,
                                             Get(skill_dict, "sources", JList(<<>>))))]]

\* regenerate_skill from the return of validate_skill (checked is the tuple
\* it returned) to its end, with the except clause of the loop for what it
\* raises: the new stats, documents and git record, and the calls made.
PublishSkill(st, dc, g, i, skill_name, descriptor, normalized, checked, dry, mkdir_ok, write_ok, add_ok, commit_ok) ==
    LET validated == Ev("validate_skill", i, skill_name, "returned")
        failed == Ev("counted", i, skill_name, "failed")
    IN
    IF Len(checked) # UnpackTargets
    THEN [stats |-> CaughtInLoop(st, skill_name,
                        "too many values to unpack (expected 2)"),
          docs |-> dc, git |-> g, events |-> <<validated, failed>>]
    ELSE IF ~checked[1]
    THEN [stats |-> CountFailed(st, skill_name \o " validation: " \o checked[2][1]),
          docs |-> dc, git |-> g, events |-> <<validated, failed>>]
    ELSE
    LET saved == save_skill_to_registry(dc, normalized, skill_name, dry,
                                        mkdir_ok, write_ok)
        save_events ==
            <<validated,
              Ev("save_skill_to_registry", i, skill_name,
                 IF saved.raised THEN "raise" ELSE IF saved.ret THEN "true" ELSE "false")>>
            \o (IF saved.docs # dc THEN <<Ev("write", i, skill_name, "")>> ELSE <<>>)
        sources == Get(descriptor, "sources", <<>>)
        committed == commit_skill(skill_name,
                                  [k \in 1..Len(sources) |-> JDict(sources[k])],
                                  add_ok, commit_ok)
    IN
    IF saved.raised
    THEN [stats |-> CaughtInLoop(st, skill_name, "[Errno 13] Permission denied"),
          docs |-> saved.docs, git |-> g, events |-> Append(save_events, failed)]
    ELSE IF ~saved.ret
    THEN [stats |-> CountFailedOnly(st), docs |-> saved.docs, git |-> g,
          events |-> Append(save_events, failed)]
    ELSE IF dry
    THEN [stats |-> CountUpdated(st), docs |-> saved.docs, git |-> g,
          events |-> Append(save_events, Ev("counted", i, skill_name, "updated"))]
    ELSE IF committed = "raise"
    THEN [stats |-> CaughtInLoop(st, skill_name,
                        "'dict' object has no attribute 'split'"),
          docs |-> saved.docs, git |-> g,
          events |-> save_events \o <<Ev("commit_skill", i, skill_name, "raise"), failed>>]
    ELSE IF committed = "false"
    THEN [stats |-> CountFailedOnly(st), docs |-> saved.docs, git |-> g,
          events |-> save_events \o <<Ev("commit_skill", i, skill_name, "false"), failed>>]
    ELSE [stats |-> CountUpdated(st), docs |-> saved.docs,
          git |-> [g EXCEPT !.commits = Append(@, skill_name)],
          events |-> save_events \o <<Ev("commit_skill", i, skill_name, "true"),
                                      Ev("counted", i, skill_name, "updated")>>]

\* regenerate_skill: validate, save to the registry, commit.
Publish ==
    /\ pc = "publish"
    /\ UNCHANGED <<dry_run, config, skill_names, idx, snapshots, result, call>>
    /\ \E checked \in {validate_skill(loc.normalized[1])},
          mkdir_ok \in BOOLEAN, write_ok \in BOOLEAN, add_ok \in BOOLEAN,
          commit_ok \in BOOLEAN :
       \E r \in {PublishSkill(stats, docs, git, idx, CurrentSkill,
                              loc.source_descriptor[1], loc.normalized[1], checked,
                              dry_run, mkdir_ok, write_ok, add_ok, commit_ok)} :
          /\ stats' = r.stats
          /\ docs' = r.docs
          /\ git' = r.git
          /\ trace' = trace \o r.events
          /\ EndSkill

\* An interrupt that is taken like any other exception of a skill.
OnInterrupt_resume(position) == "loop"

\* `except KeyboardInterrupt: ... break`: where the run goes on after an
\* interrupt at `position` of regenerate_skill.
OnInterrupt(position) == "push"

\* KeyboardInterrupt while regenerate_skill runs: the loop is left.
Interrupt ==
    /\ pc \in {"load", "fetch", "diff", "normalize", "publish"}
    /\ trace' = Append(trace, Ev("interrupt", idx, CurrentSkill, pc))
    /\ pc' = OnInterrupt(pc)
    /\ loc' = NoLocals
    /\ UNCHANGED <<dry_run, config, skill_names, idx, stats, snapshots, docs,
                   git, result, call>>

\* An exit status that also fails on skipped skills.
ExitCode_on_skipped(st) == IF st.failed + st.skipped > 0 THEN 1 ELSE 0

\* The exit status of a run that got to its summary.
ExitCode(st) == IF st.failed > 0 THEN 1 ELSE 0

\* A push that is made whatever the run did.
ShouldPush_always(dry, st) == TRUE

\* `if not self.dry_run and self.stats['updated'] > 0`
ShouldPush(dry, st) == ~dry /\ st.updated > 0

\* regenerate_skills after the for loop: push, summary, exit status.
Finish ==
    /\ \/ pc = "push"
       \/ pc = "loop" /\ LoopDone(skill_names, idx, stats)
    /\ UNCHANGED <<dry_run, config, skill_names, idx, stats, snapshots, docs, call>>
    /\ loc' = NoLocals
    /\ pc' = "done"
    /\ IF ShouldPush(dry_run, stats)
       THEN \E changed \in BOOLEAN, push_ok \in BOOLEAN :
            \E p \in {push_changes(git.branch, changed, push_ok)} :
            /\ git' = IF p.pushed THEN [git EXCEPT !.pushes = Append(@, git.branch)]
                      ELSE git
            /\ IF p.ret
               THEN /\ trace' = trace \o <<Ev("push_changes", 0, "", "true"),
                                           Ev("print_summary", 0, "", "")>>
                    /\ result' = Some(ExitCode(stats))
               ELSE /\ trace' = Append(trace, Ev("push_changes", 0, "", "false"))
                    /\ result' = Some(1)
       ELSE /\ git' = git
            /\ trace' = Append(trace, Ev("print_summary", 0, "", ""))
            /\ result' = Some(ExitCode(stats))

Next ==
    \/ BeginRun
    \/ NextSkill
    \/ LoadDescriptor
    \/ FetchSources
    \/ ComputeDiff
    \/ Normalize
    \/ Publish
    \/ Interrupt
    \/ Finish

Spec == Init /\ [][Next]_vars

----------------------------------------------------------------------------
(* Direct use of the SourceFetcher snapshot methods, as in                 *)
(* tests/test_source_fetcher.py: any sequence of save_snapshot,            *)
(* load_snapshot and compute_diff calls on any stored snapshots.           *)

FetcherSkills == {"test-skill", "new-skill"}

FetcherContents ==
    {"", "Same content", "Old content", "New different content",
     "First line\r\nSecond line"}

\* Length bound of the history of saves kept per skill.
MaxSaves == 2

OrchIdle ==
    /\ dry_run = FALSE
    /\ config = GoodConfig
    /\ skill_names = <<>>
    /\ pc = "idle"
    /\ idx = 0
    /\ stats = [processed |-> 0, updated |-> 0, skipped |-> 0, failed |-> 0,
                errors |-> <<>>]
    /\ loc = <<>>
    /\ docs = <<>>
    /\ git = <<>>
    /\ result = None
    /\ trace = <<>>

FetcherInit ==
    /\ OrchIdle
    /\ snapshots \in [FetcherSkills -> {None} \cup {Some(c) : c \in FetcherContents}]
    /\ call = [NoCall EXCEPT !.before = snapshots,
                             !.saved = [s \in FetcherSkills |-> <<>>]]

\* fetcher.save_snapshot(s, c)
SaveSnapshotCall(s, c, io_ok) ==
    LET r == save_snapshot(snapshots, s, c, io_ok) IN
    /\ Len(call.saved[s]) < MaxSaves
    /\ snapshots' = r.snapshots
    /\ call' = [op |-> "save_snapshot", skill |-> s, content |-> c,
                before |-> snapshots, ret |-> None, ok |-> r.ret,
                saved |-> IF r.ret THEN [call.saved EXCEPT ![s] = Append(@, c)]
                          ELSE call.saved]

\* fetcher.load_snapshot(s)
LoadSnapshotCall(s) ==
    /\ snapshots' = snapshots
    /\ call' = [op |-> "load_snapshot", skill |-> s, content |-> "",
                before |-> snapshots, ret |-> load_snapshot(snapshots, s),
                ok |-> TRUE, saved |-> call.saved]

\* fetcher.compute_diff(s, c)
ComputeDiffCall(s, c) ==
    LET r == compute_diff(snapshots, s, c) IN
    /\ snapshots' = r.snapshots
    /\ call' = [op |-> "compute_diff", skill |-> s, content |-> c,
                before |-> snapshots, ret |-> r.ret, ok |-> TRUE,
                saved |-> call.saved]

FetcherNext ==
    /\ UNCHANGED orch_vars
    /\ \/ \E s \in FetcherSkills, c \in FetcherContents, io_ok \in BOOLEAN :
             SaveSnapshotCall(s, c, io_ok)
       \/ \E s \in FetcherSkills : LoadSnapshotCall(s)
       \/ \E s \in FetcherSkills, c \in FetcherContents : ComputeDiffCall(s, c)

FetcherSpec == FetcherInit /\ [][FetcherNext]_vars

----------------------------------------------------------------------------
(* Direct use of SkillNormalizer, as in tests/test_skill_normalizer.py:    *)
(* one normalize call on any arguments and any answer of the model, then   *)
(* skill_to_markdown on the record it returned.                            *)

NormContents ==
    {"", "Components are functions that return markup.",
     "Read https://react.dev/learn, then http://hooks.example/rules; and more."}

\* The skill_version arguments: a version, the default of the descriptor,
\* nothing, and one that is longer than a version may be.
NormVersions == {"18.2", "unknown", "", "18.2.0-canary-2026-02-06-build"}

\* The sources arguments: not given, empty, one URL.
NormSources == {None, Some(<<>>), Some(<<"https://react.dev/reference">>)}

\* The sources arguments of skill_to_markdown besides the record's own.
RenderSources == {JList(<<>>), JStrList(<<"https://react.dev/reference">>)}

\* A JSON object where an item is expected: passes the schema check.
ObjectItemResponse ==
    [GoodResponse EXCEPT
        !.security = JList(<<JDict([rule |-> JStr("Sanitize HTML before rendering")])>>)]

\* A number for the name, a string for the rules, no version: each fails the
\* schema check.
NumericNameResponse == [GoodResponse EXCEPT !.name = JInt(18)]
StringRulesResponse == [GoodResponse EXCEPT !.rules = JStr("Call hooks at the top level")]
NoVersionResponse == [k \in DOMAIN GoodResponse \ {"version"} |-> GoodResponse[k]]

NormResponses ==
    LLMResults
    \cup {Some(JDict(ObjectItemResponse)), Some(JDict(NumericNameResponse)),
          Some(JDict(StringRulesResponse)), Some(JDict(NoVersionResponse))}

\* The record of test_markdown_all_required_sections.
CompleteSkill ==
    [name |-> JStr("complete-skill"),
     version |-> JStr("2.0.0"),
     purpose |-> JStr("A complete skill for testing"),
     principles |-> JStrList(<<"P1", "P2">>),
     rules |-> JStrList(<<"R1", "R2", "R3">>),
     patterns |-> JStrList(<<"Pat1", "Pat2", "Pat3">>),
     anti_patterns |-> JStrList(<<"AP1", "AP2">>),
     security |-> JStrList(<<"Sec1">>),
     performance |-> JStrList(<<"Perf1">>),
     tooling |-> JStrList(<<"Tool1">>)]

ListKeys ==
    {"principles", "rules", "patterns", "anti_patterns", "security", "performance",
     "tooling"}

\* The records given to skill_to_markdown directly: the complete one with
\* none, one, two or all of its lists emptied, or with one key deleted, or
\* with a last_updated.
MdSkills ==
    {[k \in DOMAIN CompleteSkill |->
        IF k \in {a, b} THEN JList(<<>>) ELSE CompleteSkill[k]] :
            a \in ListKeys \cup {"none"}, b \in ListKeys \cup {"none"}}
    \cup {[k \in DOMAIN CompleteSkill |->
             IF k \in ListKeys THEN JList(<<>>) ELSE CompleteSkill[k]]}
    \cup {[k \in DOMAIN CompleteSkill \ {gone} |-> CompleteSkill[k]] :
            gone \in ListKeys \cup {"purpose", "version", "name"}}
    \cup {SetKey(CompleteSkill, "last_updated", JStr(t)) : t \in UtcNows}

\* The skill names of the calls on the purpose step: usual ones, none, and
\* long ones.
PurposeNames == {"react", "vue", "node", "", Rep("s", 104), Rep("s", 105)}

\* Responses that differ from the good one in the length of the purpose.
PurposeResponses ==
    {Some(JDict([GoodResponse EXCEPT !.purpose = JStr(Rep("p", n))])) :
        n \in {0, 1, 49, 50, 150, 151}}

NormalizerInit ==
    /\ OrchIdle
    /\ snapshots = <<>>
    /\ call \in {[op |-> "normalize", stage |-> "args", content |-> c,
                  skill_name |-> "react", skill_version |-> v, sources |-> src,
                  response_json |-> r, utcnow |-> t, skill |-> None,
                  out |-> None, render_sources |-> None, markdown |-> "",
                  skill_after |-> None] :
                    c \in NormContents, v \in NormVersions, src \in NormSources,
                    r \in NormResponses, t \in UtcNows}
               \cup
               {[op |-> "normalize", stage |-> "args",
                 content |-> "Components are functions that return markup.",
                 skill_name |-> n, skill_version |-> "18.2",
                 sources |-> Some(<<"https://react.dev/reference">>),
                 response_json |-> r, utcnow |-> t, skill |-> None,
                 out |-> None, render_sources |-> None, markdown |-> "",
                 skill_after |-> None] :
                    n \in PurposeNames, r \in PurposeResponses, t \in UtcNows}
               \cup
               {[op |-> "skill_to_markdown", stage |-> "args", content |-> "",
                 skill_name |-> "", skill_version |-> "", sources |-> None,
                 response_json |-> None, utcnow |-> "", skill |-> Some(sk),
                 out |-> None, render_sources |-> Some(given), markdown |-> "",
                 skill_after |-> None] :
                    sk \in MdSkills, given \in RenderSources}

\* normalizer.normalize(content, skill_name, skill_version, sources)
NormalizeCall ==
    /\ call.op = "normalize"
    /\ call.stage = "args"
    /\ \E r \in {normalize(call.content, call.skill_name, call.skill_version,
                            call.sources, call.response_json, call.utcnow)} :
          call' = [call EXCEPT
                     !.stage = IF r.gate = "raise" THEN "raised" ELSE "normalized",
                     !.out = Some(r)]
    /\ UNCHANGED <<orch_vars, snapshots>>

\* normalizer.skill_to_markdown(record, sources) on the returned record
MarkdownCall ==
    /\ call.stage = "normalized"
    /\ call.out[1].ret # None
    /\ \E given \in RenderSources \cup {call.out[1].ret[1].sources} :
          call' = [call EXCEPT
                     !.stage = "rendered",
                     !.render_sources = Some(given),
                     !.markdown = skill_to_markdown(call.out[1].ret[1], given),
                     !.skill_after = Some(skill_after_markdown(call.out[1].ret[1], given))]
    /\ UNCHANGED <<orch_vars, snapshots>>

\* normalizer.skill_to_markdown(skill, sources) on a record of the caller
MarkdownDirectCall ==
    /\ call.op = "skill_to_markdown"
    /\ call.stage = "args"
    /\ call' = [call EXCEPT
                  !.stage = "rendered",
                  !.markdown = skill_to_markdown(call.skill[1], call.render_sources[1]),
                  !.skill_after = Some(skill_after_markdown(call.skill[1],
                                                            call.render_sources[1]))]
    /\ UNCHANGED <<orch_vars, snapshots>>

NormalizerNext == NormalizeCall \/ MarkdownCall \/ MarkdownDirectCall

NormalizerSpec == NormalizerInit /\ [][NormalizerNext]_vars

----------------------------------------------------------------------------
(* Direct use of SkillValidator, as in tests/test_skill_validator.py: one  *)
(* validate_skill call on a record that differs from a valid one in one    *)
(* metadata field and in one section.                                      *)

ValidSkill ==
    [name |-> JStr("test-skill"),
     version |-> JStr("1.0.0"),
     purpose |-> JStr("A comprehensive skill for testing purposes that is quite detailed"),
     last_updated |-> JStr("2026-02-06T00:00:00Z"),
     principles |-> JStrList(<<"Always validate input data appropriately in advance",
                               "Use type hints in code for clarity and maintainability",
                               "Write tests for all functions before implementation">>),
     rules |-> JStrList(<<"Never use bare except clauses in production code",
                          "Use f-strings for formatting all string operations",
                          "Always use context managers for resource handling">>),
     patterns |-> JStrList(<<"Use dataclasses for simple data structures and types",
                             "Use comprehensions for list transformations efficiently",
                             "Use pathlib instead of os.path for file operations">>),
     anti_patterns |-> JStrList(<<"Avoid using global variables in your code",
                                  "Avoid mutable default arguments in functions">>),
     security |-> JStrList(<<"Always validate and sanitize user input from sources">>),
     performance |-> JStrList(<<"Use generators for large datasets and memory efficiency">>),
     tooling |-> JStrList(<<"Use pytest for testing with proper test organization">>),
     sources |-> JStrList(<<"https://example.com/docs", "https://github.com/example/repo">>)]

\* del d[k]
DelKey(d, k) == [x \in DOMAIN d \ {k} |-> d[x]]

\* An edit of a record: a key with the value to give it, or None to delete it.
Edited(d, edit) ==
    IF edit.value = None THEN DelKey(d, edit.key) ELSE SetKey(d, edit.key, edit.value[1])

Edit(k, value) == [key |-> k, value |-> value]

\* n items of the given length that differ from one another.
Items(n, length) ==
    JStrList([i \in 1..n |-> Rep("x", length - 2) \o (IF i < 10 THEN "0" ELSE "1")
                              \o ToString(i % 10)])

\* The metadata of the record under validation: kept, or one field deleted,
\* emptied, at a bound, past a bound, or of another type.
MetadataEdits ==
    {Edit("last_updated", Some(ValidSkill.last_updated))}
    \cup {Edit(f, None) : f \in {"name", "version", "purpose", "last_updated", "sources"}}
    \cup {Edit(f, Some(JStr(""))) : f \in {"name", "version", "purpose", "last_updated"}}
    \cup {Edit("name", Some(JStr(Rep("n", k)))) : k \in {50, 51}}
    \cup {Edit("version", Some(JStr(Rep("1", k)))) : k \in {20, 21}}
    \cup {Edit("purpose", Some(JStr(Rep("p", k)))) : k \in {1, 49, 50, 51, 149, 150, 151}}
    \cup {Edit("last_updated", Some(JStr(d))) :
            d \in {"2026-02-06", "2026-02-06T00:00:00Z\n", "2026-02-06 00:00:00Z"}}
    \cup {Edit(f, Some(JInt(2026))) : f \in {"name", "version", "purpose", "last_updated"}}
    \cup {Edit("sources", Some(x)) :
            x \in {JList(<<>>), JStr("https://example.com/docs"),
                   JStrList(<<"ftp://example.com/docs">>),
                   JStrList(<<"http://example.com/docs">>),
                   JList(<<JInt(7)>>)}}

\* The sections of the record under validation: kept, or one of them with a
\* count or an item at a bound or past it, with an item that draws a warning,
\* with an item that is not a string, not a list, or deleted.
SectionEdits ==
    {Edit("rules", Some(ValidSkill.rules))}
    \cup {Edit("rules", Some(Items(n, 20))) : n \in {2, 10, 11}}
    \cup {Edit("anti_patterns", Some(Items(n, 20))) : n \in {1, 5, 6}}
    \cup {Edit("tooling", Some(Items(1, k))) : k \in {14, 15, 150, 151}}
    \cup {Edit("security", Some(x)) :
            x \in {JList(<<>>),
                   JStrList(<<"You should sanitize user input">>),
                   JStrList(<<"You SHOULD sanitize user input",
                              "User input cannot be trusted">>),
                   JStrList(<<"Sanitize every user input", "Sanitize every user input">>),
                   JList(<<JInt(42)>>),
                   JList(<<JDict([rule |-> JStr("Sanitize every user input")])>>),
                   JList(<<JStrList(<<"Sanitize every user input">>)>>),
                   JStr("Sanitize every user input")}}
    \cup {Edit(f, None) : f \in {"performance", "principles"}}
    \cup UNION {{Edit(RequiredSections[k], None),
                 Edit(RequiredSections[k], Some(JStr("Not a list")))}
                \cup {Edit(RequiredSections[k], Some(Items(n, 20))) :
                        n \in {SECTION_LIMITS[RequiredSections[k]][1] - 1,
                               SECTION_LIMITS[RequiredSections[k]][1],
                               SECTION_LIMITS[RequiredSections[k]][2],
                               SECTION_LIMITS[RequiredSections[k]][2] + 1}} :
                k \in 1..Len(RequiredSections)}
    \cup {Edit("principles", Some(Items(2, 20)))}

\* A record after a sequence of edits.
RECURSIVE ApplyEdits(_, _)
ApplyEdits(d, edits) ==
    IF edits = <<>> THEN d
    ELSE ApplyEdits(Edited(d, edits[1]), SubSeq(edits, 2, Len(edits)))

\* Records that break several rules at once, in the metadata, in the
\* sections and in the items.
SeveralViolations ==
    {ApplyEdits(ValidSkill, edits) :
        edits \in {<<Edit("name", None),
                     Edit("purpose", Some(JStr(Rep("p", 49)))),
                     Edit("rules", Some(Items(2, 20)))>>,
                   <<Edit("name", Some(JStr(Rep("n", 51)))),
                     Edit("version", Some(JStr(Rep("1", 21)))),
                     Edit("purpose", Some(JStr(Rep("p", 151)))),
                     Edit("last_updated", Some(JStr("2026-02-06"))),
                     Edit("sources", Some(JList(<<>>))),
                     Edit("rules", None),
                     Edit("patterns", Some(JStr("Not a list"))),
                     Edit("anti_patterns", Some(Items(6, 20))),
                     Edit("security", Some(JList(<<>>))),
                     Edit("tooling", Some(JList(<<JInt(42)>>)))>>,
                   <<Edit("version", Some(JStr(""))),
                     Edit("sources", Some(JStr("https://example.com/docs"))),
                     Edit("performance", None),
                     Edit("tooling", None)>>}}

ValidatorInit ==
    /\ OrchIdle
    /\ snapshots = <<>>
    /\ call \in {[op |-> "validate_skill", stage |-> "args",
                  skill |-> skill, raised |-> "", ret |-> None] :
                    skill \in {Edited(Edited(ValidSkill, m), e) :
                                  m \in MetadataEdits, e \in SectionEdits}
                              \cup SeveralViolations}

\* validator.validate_skill(skill)
ValidateSkillCall ==
    /\ call.op = "validate_skill"
    /\ call.stage = "args"
    /\ call' = IF validate_skill_raises(call.skill)
               THEN [call EXCEPT !.stage = "raised", !.raised = "TypeError"]
               ELSE [call EXCEPT !.stage = "returned",
                                 !.ret = Some(validate_skill(call.skill))]
    /\ UNCHANGED <<orch_vars, snapshots>>

ValidatorNext == ValidateSkillCall

ValidatorSpec == ValidatorInit /\ [][ValidatorNext]_vars

----------------------------------------------------------------------------
(* source_fetcher.py: fetch_sources called directly, twice over the same    *)
(* answers of the sources, followed by save_snapshot of the earlier text    *)
(* and compute_diff of the later one.                                       *)

SourcesSkills == {"nodesc", "badjson", "locked", "nosrc", "react", "vue", "svelte"}

\* Bodies of a url source that bring the combined text of react just under,
\* onto and just over the length fetch_sources asks for, for a timestamp with
\* and without microseconds.
BoundaryAnswers ==
    {[text |-> Some(Rep("x", n)), releases |-> None] : n \in {1, 2, 3, 8, 9, 10}}

\* The answers of the sources of a descriptor, one per source.
SourcesHttp(skill_name) ==
    LET d == DescriptorFile(skill_name)
        sources == IF d.state = "ok" THEN d.json.sources ELSE <<>>
        for(i) == AnswersFor(sources[i])
                  \cup (IF skill_name = "react" THEN BoundaryAnswers ELSE {})
    IN {http \in [1..Len(sources) -> UNION {for(i) : i \in 1..Len(sources)}] :
           \A i \in 1..Len(sources) : http[i] \in for(i)}

SourcesInit ==
    /\ OrchIdle
    /\ snapshots = [s \in SourcesSkills |-> None]
    /\ \E skill_name \in SourcesSkills :
       \E http \in SourcesHttp(skill_name), now_iso \in NowIsos :
          call = [op |-> "fetch_sources", stage |-> "args",
                  skill_name |-> skill_name, http |-> http, now_iso |-> now_iso,
                  ret |-> None, again_now_iso |-> "", again |-> None,
                  diff |-> None]

\* content = fetcher.fetch_sources(skill_name)
FetchSourcesCall ==
    /\ call.stage = "args"
    /\ \E r \in {fetch_sources(call.skill_name, call.http, call.now_iso)} :
          call' = IF r.raised THEN [call EXCEPT !.stage = "raised"]
                  ELSE [call EXCEPT !.stage = "fetched", !.ret = r.ret]
    /\ UNCHANGED <<orch_vars, snapshots>>

\* fetcher.fetch_sources(skill_name) once more, the sources answering as
\* before; datetime.now() has its value of that moment.
FetchSourcesAgain ==
    /\ call.stage = "fetched"
    /\ \E now_iso \in NowIsos :
       \E r \in {fetch_sources(call.skill_name, call.http, now_iso)} :
          call' = [call EXCEPT !.stage = "refetched", !.again_now_iso = now_iso,
                               !.again = r.ret]
    /\ UNCHANGED <<orch_vars, snapshots>>

\* fetcher.save_snapshot(skill_name, content) with the earlier text
SaveEarlier ==
    /\ call.stage = "refetched"
    /\ call.ret # None
    /\ call.again # None
    /\ snapshots' = save_snapshot(snapshots, call.skill_name, call.ret[1], TRUE).snapshots
    /\ call' = [call EXCEPT !.stage = "saved"]
    /\ UNCHANGED orch_vars

\* fetcher.compute_diff(skill_name, content) with the later text
DiffLater ==
    /\ call.stage = "saved"
    /\ \E r \in {compute_diff(snapshots, call.skill_name, call.again[1])} :
          /\ snapshots' = r.snapshots
          /\ call' = [call EXCEPT !.stage = "compared", !.diff = r.ret]
    /\ UNCHANGED orch_vars

SourcesNext ==
    \/ FetchSourcesCall
    \/ FetchSourcesAgain
    \/ SaveEarlier
    \/ DiffLater

SourcesSpec == SourcesInit /\ [][SourcesNext]_vars

----------------------------------------------------------------------------
(* github_sync.py: commit_skill and push_changes called directly.  call     *)
(* holds the repository: the commits made on the branch, the pushes, and    *)
(* whether the working tree has changes that are not committed.             *)

SyncSkills == {"react", "vue"}

SyncBranches == {"main", "generate/skills-20260206_100000"}

SyncInit ==
    /\ OrchIdle
    /\ snapshots = <<>>
    /\ \E branch \in SyncBranches, dirty \in BOOLEAN :
          call = [op |-> "none", branch |-> branch, commits |-> <<>>,
                  pushes |-> <<>>, dirty |-> dirty, skill |-> "", out |-> "",
                  pushed |-> FALSE, push_ok |-> FALSE, ret |-> FALSE]

\* git.commit_skill(skill_name, sources) after the file of the skill was
\* written: a commit takes the file; a failure leaves it uncommitted.
CommitSkillCall(skill_name, add_ok, commit_ok) ==
    /\ Len(call.commits) < MaxSkills
    /\ Len(call.pushes) = 0
    /\ \E out \in {commit_skill(skill_name, <<JStr("https://react.dev/learn")>>,
                                 add_ok, commit_ok)} :
          call' = [call EXCEPT !.op = "commit_skill", !.skill = skill_name,
                               !.out = out,
                               !.commits = IF out = "true" THEN Append(@, skill_name)
                                           ELSE @,
                               !.dirty = IF out = "true" THEN @ ELSE TRUE]
    /\ UNCHANGED <<orch_vars, snapshots>>

\* git.push_changes(branch)
PushChangesCall(status_ok, push_ok) ==
    /\ Len(call.pushes) < MaxSkills
    /\ \E r \in {push_changes(call.branch, has_changes(call.dirty, status_ok), push_ok)} :
          call' = [call EXCEPT !.op = "push_changes", !.skill = "", !.out = "",
                               !.pushed = r.pushed, !.push_ok = push_ok,
                               !.ret = r.ret,
                               !.pushes = IF r.pushed /\ push_ok
                                          THEN Append(@, call.branch) ELSE @]
    /\ UNCHANGED <<orch_vars, snapshots>>

SyncNext ==
    \/ \E skill_name \in SyncSkills, add_ok \in BOOLEAN, commit_ok \in BOOLEAN :
          CommitSkillCall(skill_name, add_ok, commit_ok)
    \/ \E status_ok \in BOOLEAN, push_ok \in BOOLEAN :
          PushChangesCall(status_ok, push_ok)

SyncSpec == SyncInit /\ [][SyncNext]_vars

----------------------------------------------------------------------------
(* skill_validator.py: a sequence of validate_skill calls on one            *)
(* SkillValidator.  The lists are objects: heap[id] is the content of list  *)
(* id, the validator holds the ids of self.errors and self.warnings, and a  *)
(* returned tuple holds the ids of the lists it was built from.             *)

\* Number of validate_skill calls made on the one validator.
MaxCalls == 3

\* SkillValidator.__init__: self.errors = [], self.warnings = []
NewValidator == [heap |-> <<<<>>, <<>>>>, errors |-> 1, warnings |-> 2]

\* What self.errors holds when len(name) raises for a name that is a number:
\* the findings of the loop over the required fields.
errors_before_raise(skill) ==
    Flatten([i \in 1..Len(RequiredFields) |->
        IF RequiredFields[i] \notin DOMAIN skill \/ ~PyTruthy(skill[RequiredFields[i]])
        THEN <<"Missing or empty field: " \o RequiredFields[i]>> ELSE <<>>])

\* A validate_skill that keeps the lists of the validator and adds to them.
validate_skill_on_keeping(v, skill) ==
    LET r == validate_skill(skill)
        heap == [v.heap EXCEPT ![v.errors] = @ \o r[2], ![v.warnings] = @ \o r[3]]
    IN IF validate_skill_raises(skill)
       THEN [v |-> v, outcome |-> "raised", ret |-> None]
       ELSE [v |-> [v EXCEPT !.heap = heap], outcome |-> "returned",
             ret |-> Some(<<Len(heap[v.errors]) = 0, v.errors, v.warnings>>)]

\* validator.validate_skill(skill) on the validator v: two new lists are
\* bound to self.errors and self.warnings, filled, and returned themselves.
validate_skill_on(v, skill) ==
    LET e == Len(v.heap) + 1
        w == Len(v.heap) + 2
    IN IF validate_skill_raises(skill)
       THEN [v |-> [heap |-> v.heap \o <<errors_before_raise(skill), <<>>>>,
                    errors |-> e, warnings |-> w],
             outcome |-> "raised", ret |-> None]
       ELSE LET r == validate_skill(skill) IN
            [v |-> [heap |-> v.heap \o <<r[2], r[3]>>, errors |-> e, warnings |-> w],
             outcome |-> "returned", ret |-> Some(<<r[1], e, w>>)]

\* The records given to the one validator: one that passes, one with several
\* errors, one with warnings only, one with errors and warnings, and two for
\* which the call raises, the second after a finding.
InstanceSkills ==
    {ValidSkill}
    \cup SeveralViolations
    \cup {Edited(ValidSkill, Edit("security",
                    Some(JStrList(<<"You should sanitize user input">>)))),
          Edited(ValidSkill, Edit("name", Some(JInt(2026)))),
          Edited(Edited(ValidSkill, Edit("name", Some(JInt(2026)))),
                 Edit("version", None))}

InstanceInit ==
    /\ OrchIdle
    /\ snapshots = <<>>
    /\ call = [op |-> "none", validator |-> NewValidator, skill |-> <<>>,
               skill_after |-> <<>>, outcome |-> "", ret |-> None,
               earlier |-> <<>>]

\* validator.validate_skill(skill); the caller keeps what every call
\* returned, with a copy of what the lists held at that moment.
ValidateOnInstance(skill) ==
    /\ Len(call.earlier) < MaxCalls
    /\ \E r \in {validate_skill_on(call.validator, skill)} :
          call' = [op |-> "validate_skill", validator |-> r.v, skill |-> skill,
                   skill_after |-> skill, outcome |-> r.outcome, ret |-> r.ret,
                   earlier |-> Append(call.earlier,
                       [skill |-> skill, ret |-> r.ret,
                        errors |-> IF r.ret = None THEN <<>> ELSE r.v.heap[r.ret[1][2]],
                        warnings |-> IF r.ret = None THEN <<>>
                                     ELSE r.v.heap[r.ret[1][3]]])]
    /\ UNCHANGED <<orch_vars, snapshots>>

InstanceNext == \E skill \in InstanceSkills : ValidateOnInstance(skill)

InstanceSpec == InstanceInit /\ [][InstanceNext]_vars

----------------------------------------------------------------------------
(* llm_client.py: LLMClient.call, one pass of its for loop per step.       *)
(* call.attempt is the loop index, call.posts the outcomes of the requests *)
(* made so far, call.sleeps the seconds slept between them.                *)

\* Bound on the max_retries argument of the calls.
MaxRetries == 3

\* max_retries: int = 3
DefaultMaxRetries == 3

\* What one pass of the try block can come to: the content of the first
\* choice (a string, or None for a JSON null), a RequestException (from
\* requests.post or raise_for_status), a body that is not JSON (which
\* response.json() raises as a RequestException or as a plain ValueError,
\* depending on the requests release), or a reply without choices, for which
\* `[0]` raises IndexError.
\* The three backquotes of a code fence.  A string of TLA+ cannot hold a
\* backquote: an apostrophe stands for it.
Fence == "'''"

PostOutcomes ==
    {[exc |-> "none", kind |-> "ok", content |-> c] :
        c \in {None, Some(""), Some("{\"name\": \"React\"}"),
               Some(Fence \o "json\n{\"name\": \"React\"}\n" \o Fence),
               Some("Here is the skill: {name: React"),
               Some(Fence \o "json\n{\"name\": \"React\",}\n" \o Fence)}}
    \cup {[exc |-> "RequestException", kind |-> k, content |-> None] :
             k \in {"Timeout", "ConnectionError", "HTTPError", "JSONDecodeError"}}
    \cup {[exc |-> "ValueError", kind |-> "JSONDecodeError", content |-> None],
          [exc |-> "IndexError", kind |-> "no choices", content |-> None]}

\* An except clause that takes every exception.
Retried_any(o) == o.exc # "none"

\* `except requests.exceptions.RequestException`
Retried(o) == o.exc = "RequestException"

\* backoff = 2 ** attempt
Backoff(attempt) == 2 ^ attempt

\* One pass of the body of `for attempt in range(max_retries)` in which the
\* request came to o.
call_attempt(c, o) ==
    IF o.exc = "none"
    THEN [c EXCEPT !.posts = Append(@, o), !.status = "returned", !.ret = o.content]
    ELSE IF Retried(o)
    THEN IF c.attempt < c.max_retries - 1
         THEN [c EXCEPT !.posts = Append(@, o),
                        !.sleeps = Append(@, Backoff(c.attempt)),
                        !.attempt = @ + 1]
         ELSE [c EXCEPT !.posts = Append(@, o), !.status = "returned", !.ret = None]
    ELSE [c EXCEPT !.posts = Append(@, o), !.status = "raised", !.ret = None]

\* The texts that are JSON documents, with the values json.loads gives.
JsonDocuments ==
    ("{\"name\": \"React\"}" :> JDict([name |-> JStr("React")]))
    @@ ("[]" :> JList(<<>>))
    @@ ("18" :> JInt(18))

\* A json.loads that takes a text that is no document as a string.
json_loads_lenient(text) ==
    IF text \in DOMAIN JsonDocuments
    THEN [exc |-> "none", value |-> Some(JsonDocuments[text])]
    ELSE [exc |-> "none", value |-> Some(JStr(text))]

\* json.loads(text)
json_loads(text) ==
    IF text \in DOMAIN JsonDocuments
    THEN [exc |-> "none", value |-> Some(JsonDocuments[text])]
    ELSE [exc |-> "JSONDecodeError", value |-> None]

\* The text generate_json gives to json.loads: without a leading fence
\* with json after it, without a trailing fence, stripped of white space.
StripFences(response) ==
    LET opened == IF StartsWith(response, Fence \o "json")
                  THEN SubSeq(response, 8, Len(response)) ELSE response
        closed == IF Len(opened) >= 3
                     /\ SubSeq(opened, Len(opened) - 2, Len(opened)) = Fence
                  THEN SubSeq(opened, 1, Len(opened) - 3) ELSE opened
    IN StripChars(closed, {" ", "\n", "\t", "\r", "\f"})

\* LLMClient.generate_json once self.call has ended as c: an exception of
\* the call goes through, no response gives None, a response that is not a
\* JSON document gives None.
generate_json(c) ==
    IF c.status = "raised" THEN [status |-> "raised", ret |-> None]
    ELSE IF c.ret = None \/ c.ret[1] = "" THEN [status |-> "returned", ret |-> None]
    ELSE LET parsed == json_loads(StripFences(c.ret[1])) IN
         IF parsed.exc = "none" THEN [status |-> "returned", ret |-> parsed.value]
         ELSE [status |-> "returned", ret |-> None]

LLMInit ==
    /\ OrchIdle
    /\ snapshots = <<>>
    /\ call \in {[op |-> "call", max_retries |-> m, attempt |-> 0, posts |-> <<>>,
                  sleeps |-> <<>>, status |-> "running", ret |-> None,
                  json_status |-> "pending", json |-> None] :
                    m \in 0..MaxRetries \cup {DefaultMaxRetries}}

\* One pass of the loop body.
LLMAttempt ==
    /\ call.status = "running"
    /\ call.attempt < call.max_retries
    /\ \E o \in PostOutcomes : call' = call_attempt(call, o)
    /\ UNCHANGED <<orch_vars, snapshots>>

\* range(max_retries) is empty: the `return None` after the loop.
LLMLoopEmpty ==
    /\ call.status = "running"
    /\ call.attempt >= call.max_retries
    /\ call' = [call EXCEPT !.status = "returned", !.ret = None]
    /\ UNCHANGED <<orch_vars, snapshots>>

\* generate_json goes on after self.call: it parses the response.
GenerateJsonReturn ==
    /\ call.op = "call"
    /\ call.status # "running"
    /\ call.json_status = "pending"
    /\ \E r \in {generate_json(call)} :
          call' = [call EXCEPT !.json_status = r.status, !.json = r.ret]
    /\ UNCHANGED <<orch_vars, snapshots>>

LLMNext == LLMAttempt \/ LLMLoopEmpty \/ GenerateJsonReturn

\* The call is not suspended for ever: time.sleep and a request with a
\* timeout both return.
LLMSpec == LLMInit /\ [][LLMNext]_vars /\ WF_vars(LLMNext)

----------------------------------------------------------------------------
(* Properties of a run of regenerate_skills, read from the record of the  *)
(* calls it made (trace) and from its counters.                            *)

\* Skill number i of the run made the call op with the outcome out.
Has(i, op, out) ==
    \E k \in 1..Len(trace) :
        trace[k].i = i /\ trace[k].op = op /\ trace[k].out = out

\* Skill number i of the run made the call op.
HasOp(i, op) == \E k \in 1..Len(trace) : trace[k].i = i /\ trace[k].op = op

\* The skills of the run that were counted with the outcome out.
CountedAs(out) == {i \in 1..idx : Has(i, "counted", out)}

\* The counters are the numbers of skills counted each way.
CountersFollowTrace ==
    /\ stats.updated = Cardinality(CountedAs("updated"))
    /\ stats.skipped = Cardinality(CountedAs("skipped"))
    /\ stats.failed = Cardinality(CountedAs("failed"))

\* Skill number i went down the whole path with nothing going wrong: its
\* descriptor loaded, its fetch and its diff returned content, normalize
\* returned a record, and no persist or commit step failed.
HappyPath(i) ==
    /\ Has(i, "load_source_descriptor", "value")
    /\ Has(i, "fetch_sources", "value")
    /\ Has(i, "compute_diff", "value")
    /\ Has(i, "normalize", "record")
    /\ HasOp(i, "counted")
    /\ ~Has(i, "save_skill_to_registry", "raise")
    /\ ~Has(i, "save_skill_to_registry", "false")
    /\ ~Has(i, "commit_skill", "raise")
    /\ ~Has(i, "commit_skill", "false")

\* C1 (as claimed): a skill whose descriptor loads, whose fetch and diff
\* return content, whose normalize returns a record and whose persist and
\* commit do not fail is counted as updated, and neither as failed nor as
\* skipped.
C1_HappyPathUpdated ==
    /\ CountersFollowTrace
    /\ \A i \in 1..idx :
          HappyPath(i) =>
              /\ Has(i, "counted", "updated")
              /\ ~Has(i, "counted", "failed")
              /\ ~Has(i, "counted", "skipped")

\* C2: a document is written and a commit is made for a skill only after
\* normalize returned a record for it, the record that goes on to be
\* published passes the full validation with no error, and a skill counted
\* as skipped or failed has no written document and no commit.
C2_QualityGate ==
    /\ \A k \in 1..Len(trace) :
          (trace[k].op = "write" \/ (trace[k].op = "commit_skill" /\ trace[k].out = "true"))
          => \E j \in 1..(k - 1) :
                /\ trace[j].i = trace[k].i
                /\ trace[j].op = "normalize"
                /\ trace[j].out = "record"
    /\ pc = "publish" =>
          /\ Has(idx, "normalize", "record")
          /\ loc.normalized # None
          /\ validate_skill(loc.normalized[1])[2] = <<>>
    /\ \A i \in CountedAs("skipped") \cup CountedAs("failed") :
          /\ ~HasOp(i, "write")
          /\ ~Has(i, "commit_skill", "true")
    /\ (CountedAs("updated") = {}) =>
          /\ \A s \in DOMAIN docs : docs[s] = None
          /\ git.commits = <<>>

\* A record that passed the gate is about to be published, after an earlier
\* skill of the run was stopped by the gate.
C2_Witness ==
    /\ pc = "publish"
    /\ idx = 2
    /\ Has(1, "normalize", "none")
    /\ Has(1, "counted", "failed")
    /\ validate_skill(loc.normalized[1])[1]
    /\ docs[skill_names[1]] = None

\* The attempts of the run, in the order they were made.
Attempts == SelectSeq(trace, LAMBDA e : e.op = "regenerate_skill")

\* The run was interrupted by the user.
Interrupted == \E k \in 1..Len(trace) : trace[k].op = "interrupt"

\* C3: the skills are attempted one by one in list order, each once, and
\* a run that was not interrupted ends only when every skill of the list
\* was attempted, whatever happened to the earlier ones.
C3_EveryOnceInOrder ==
    /\ Len(Attempts) = idx
    /\ \A k \in 1..Len(Attempts) :
          Attempts[k].i = k /\ Attempts[k].skill = skill_names[k]
    /\ (pc = "done" /\ config_valid /\ ~Interrupted) =>
          Len(Attempts) = Len(skill_names)
    /\ (pc = "loop" /\ idx < Len(skill_names)) => ENABLED NextSkill

\* A run ended without interrupt after its first skill failed on an
\* exception that only the loop catches, and its second skill was attempted.
C3_Witness ==
    /\ pc = "done"
    /\ ~Interrupted
    /\ Len(skill_names) = 2
    /\ Has(1, "compute_diff", "raise")
    /\ Has(1, "counted", "failed")
    /\ HasOp(2, "regenerate_skill")
    /\ HasOp(2, "counted")

NothingToDo(i) ==
    \/ Has(i, "load_source_descriptor", "none")
    \/ Has(i, "fetch_sources", "none")
    \/ Has(i, "compute_diff", "none")

\* C5: a skill with no descriptor, or whose fetch or diff returned none, is
\* counted as skipped and not as failed, no error string is recorded for
\* it, and neither normalize nor the model is called for it.
C5_SkipsAreSkips ==
    /\ CountersFollowTrace
    /\ Len(stats.errors) <= stats.failed
    /\ \A i \in 1..idx :
          NothingToDo(i) =>
              /\ Has(i, "counted", "skipped")
              /\ ~Has(i, "counted", "failed")
              /\ ~Has(i, "counted", "updated")
              /\ ~HasOp(i, "normalize")
              /\ ~HasOp(i, "generate_json")

\* A run skipped one skill for want of a change since its snapshot and one
\* for want of a descriptor, and recorded no failure and no error string.
C5_Witness ==
    /\ \E i \in 1..idx : Has(i, "compute_diff", "none")
    /\ \E i \in 1..idx : Has(i, "load_source_descriptor", "none")
    /\ stats.skipped = 2
    /\ stats.failed = 0
    /\ stats.errors = <<>>

\* C6: when normalize returns none or raises, the skill is counted as
\* failed exactly once, and neither persist nor commit is performed.
C6_NormalizeFailureFails ==
    /\ CountersFollowTrace
    /\ \A i \in 1..idx :
          (Has(i, "normalize", "none") \/ Has(i, "normalize", "raise")) =>
              /\ Cardinality({k \in 1..Len(trace) :
                                 trace[k].i = i /\ trace[k].op = "counted"}) = 1
              /\ Has(i, "counted", "failed")
              /\ ~HasOp(i, "validate_skill")
              /\ ~HasOp(i, "save_skill_to_registry")
              /\ ~HasOp(i, "write")
              /\ ~HasOp(i, "commit_skill")

\* normalize returned none for one skill and raised for another.
C6_Witness ==
    /\ pc = "loop"
    /\ \E i \in 1..idx : Has(i, "normalize", "none")
    /\ \E i \in 1..idx : Has(i, "normalize", "raise")
    /\ stats.failed = 2

\* C7 (as claimed): a skill whose descriptor is present and for whose
\* source the HTTP collaborator reported an error is counted as failed and
\* not as skipped.
C7_FetchFailureFails ==
    \A i \in 1..idx :
        (Has(i, "load_source_descriptor", "value") /\ Has(i, "http", "error")
           /\ HasOp(i, "counted"))
        => /\ Has(i, "counted", "failed")
           /\ ~Has(i, "counted", "skipped")

\* compute_diff compared the fetched content of skill number i with its
\* snapshot and returned.
Compared(i) == Has(i, "compute_diff", "none") \/ Has(i, "compute_diff", "value")

\* C8 (as claimed): when the orchestrator is through with a skill for which
\* the fetch returned content and a diff comparison was made, the stored
\* snapshot of the skill is the content that was compared.
C8_SnapshotFollowsComparison ==
    [][(pc \in {"diff", "normalize", "publish"} /\ pc' = "loop" /\ Compared(idx)')
       => snapshots'[CurrentSkill] = loc.content]_vars

\* The places of the call op in the record of the run.
Places(op) == {k \in 1..Len(trace) : trace[k].op = op}

\* Every skill of the list was attempted and counted.
AllProcessed ==
    /\ idx = Len(skill_names)
    /\ \A i \in 1..idx : HasOp(i, "counted")

\* C11: the push step is invoked at most once, only after every skill of
\* the list was processed or the run was interrupted, and only in a run that
\* is not a dry-run and counted at least one skill as updated.
C11_PushOnceAtEnd ==
    /\ Cardinality(Places("push_changes")) <= 1
    /\ Len(git.pushes) <= Cardinality(Places("push_changes"))
    /\ \A k \in Places("push_changes") :
          /\ AllProcessed \/ Interrupted
          /\ \A j \in (k + 1)..Len(trace) : trace[j].op = "print_summary"
          /\ ~dry_run
          /\ stats.updated > 0
    /\ pc # "done" => Places("push_changes") = {}

\* A run that is not a dry-run went through its whole list, counted no skill
\* as updated, and ended without a push.
C11_Witness ==
    /\ pc = "done"
    /\ ~dry_run
    /\ config_valid
    /\ AllProcessed
    /\ idx = 2
    /\ stats.updated = 0
    /\ Places("push_changes") = {}
    /\ Places("print_summary") # {}

\* The calls that write a file or reach version control.
SuppressedOps ==
    {"create_branch", "create_pr_branch", "write", "commit_skill", "push_changes"}

\* C12: in a dry-run no document is written, no branch is created and no
\* commit or push is made, while every skill is still counted as processed
\* and as skipped, failed or updated, and a record returned by normalize
\* still goes to validate_skill.
C12_DryRunWritesNothing ==
    dry_run =>
        /\ \A k \in 1..Len(trace) : trace[k].op \notin SuppressedOps
        /\ \A s \in DOMAIN docs : docs[s] = None
        /\ git = NoGit
        /\ stats.processed = idx
        /\ CountersFollowTrace
        /\ pc = "loop" => \A i \in 1..idx : HasOp(i, "counted")
        /\ \A i \in 1..idx :
              (Has(i, "normalize", "record") /\ HasOp(i, "counted"))
              => HasOp(i, "validate_skill")

\* A dry-run fetched, compared, normalized and validated one skill and
\* skipped another, counted both, and touched neither files nor git.
C12_Witness ==
    /\ dry_run
    /\ pc = "done"
    /\ \E i \in 1..idx :
          /\ Has(i, "fetch_sources", "value")
          /\ Has(i, "compute_diff", "value")
          /\ Has(i, "normalize", "record")
          /\ HasOp(i, "validate_skill")
    /\ stats.processed = 2
    /\ stats.skipped = 1
    /\ git = NoGit
    /\ \A s \in DOMAIN docs : docs[s] = None

\* C13: when the validation of the configuration fails, the run returns 1
\* with nothing processed: processed stays 0, no descriptor is loaded, no
\* fetch and no model call is made, and no branch is created.
C13_InvalidConfigAborts ==
    Config_validate(config)[2] # <<>> =>
        /\ pc \in {"start", "done"}
        /\ pc = "done" => result = Some(1)
        /\ idx = 0
        /\ stats = NoStats
        /\ trace = <<>>
        /\ git = NoGit
        /\ loc = NoLocals

\* A run with a skill list and without a skills directory has returned.
C13_Witness ==
    /\ ~config.skills_dir_exists
    /\ skill_names # <<>>
    /\ ~dry_run
    /\ pc = "done"
    /\ result = Some(1)

\* C14: after a user interrupt during skill k no later skill is processed,
\* the counters and commits are those of the skills before k, and the run
\* goes on to its end: the push when one is due, the summary, and a status.
C14_InterruptStopsGracefully ==
    Interrupted =>
        /\ Cardinality(Places("interrupt")) = 1
        /\ \A k \in Places("interrupt") :
              /\ trace[k].i = idx
              /\ \A j \in (k + 1)..Len(trace) :
                    trace[j].op \in {"push_changes", "print_summary"}
        /\ Len(Attempts) = idx
        /\ ~HasOp(idx, "counted")
        /\ \A i \in 1..(idx - 1) : HasOp(i, "counted")
        /\ stats.processed = idx
        /\ CountersFollowTrace
        /\ Len(git.commits) = Cardinality(Places("commit_skill") \cap
                                  {k \in 1..Len(trace) : trace[k].out = "true"})
        /\ pc \in {"push", "done"}
        /\ pc = "push" => ENABLED Finish
        /\ pc = "done" =>
              /\ result \in {Some(0), Some(1)}
              /\ ShouldPush(dry_run, stats) => Places("push_changes") # {}
              /\ Places("push_changes") = {} => Places("print_summary") # {}

\* A run was interrupted in its second skill after its first was counted as
\* failed, printed its summary and returned 1.
C14_Witness ==
    /\ Interrupted
    /\ pc = "done"
    /\ Len(skill_names) = 2
    /\ idx = 2
    /\ Has(1, "counted", "failed")
    /\ stats.failed = 1
    /\ Places("print_summary") # {}
    /\ result = Some(1)

\* The text is `generate/skills-` followed by a YYYYMMDD_HHMMSS timestamp.
IsWorkingBranchName(name) ==
    /\ Len(name) = 31
    /\ SubSeq(name, 1, 16) = "generate/skills-"
    /\ \A k \in 17..31 :
          IF k = 25 THEN Char(name, k) = "_" ELSE IsDigit(Char(name, k))

\* C15: a run that is not a dry-run, with a valid configuration and a
\* non-empty skill list, attempts exactly one creation of a working branch,
\* before its first skill; the branch of the run, which the push at the end
\* uses, is generate/skills-<timestamp> when the creation succeeded and main
\* when it failed.
C15_OneWorkingBranch ==
    /\ (pc # "start" /\ ~dry_run /\ config_valid /\ skill_names # <<>>) =>
          /\ Places("create_branch") = {1}
          /\ Places("create_pr_branch") = {2}
          /\ \A k \in Places("regenerate_skill") : k > 2
          /\ IsWorkingBranchName(trace[1].skill)
          /\ git.branch = trace[2].out
          /\ git.branch = IF trace[1].out = "true" THEN trace[1].skill ELSE "main"
          /\ trace[1].out = "true" <=> git.branches = <<trace[1].skill>>
          /\ \A k \in 1..Len(git.pushes) : git.pushes[k] = git.branch
    /\ (dry_run \/ ~config_valid \/ skill_names = <<>>) =>
          /\ Places("create_branch") = {}
          /\ git.branch = "main"

\* The creation of the working branch failed and the run went through its
\* skills on main.
C15_Witness ==
    /\ ~dry_run
    /\ pc = "done"
    /\ AllProcessed
    /\ idx = 2
    /\ Has(0, "create_branch", "false")
    /\ Has(0, "create_pr_branch", "main")
    /\ git.branch = "main"
    /\ git.branches = <<>>

\* The skills of the run that were counted as failed, in processing order.
IsFailedCount(e) == e.op = "counted" /\ e.out = "failed"
FailedCounts == SelectSeq(trace, IsFailedCount)

Outcomes == {"updated", "skipped", "failed"}

\* The number of "counted" records the trace holds for skill i.
TimesCounted(i) ==
    Cardinality({k \in 1..Len(trace) : trace[k].op = "counted" /\ trace[k].i = i})

\* C36: whenever no skill is under way, after each skill and after the run,
\* processed = updated + skipped + failed and every processed skill has been
\* counted in exactly one outcome counter; no counter ever decreases.
C36_CountersAddUp ==
    /\ [](pc \in {"loop", "push", "done"} =>
            /\ stats.processed = stats.updated + stats.skipped + stats.failed
            /\ \A i \in 1..idx : TimesCounted(i) = 1)
    /\ [][\A c \in Outcomes \cup {"processed"} : stats'[c] >= stats[c]]_vars

----------------------------------------------------------------------------
(* Properties of LLMClient.call.                                           *)

\* The requests of the call that ended in a transport-level failure.
TransportFailures == {k \in 1..Len(call.posts) : call.posts[k].exc = "RequestException"}

\* What holds at every point of a call.
C16_Bounded ==
    call.op = "call" =>
        /\ Len(call.posts) <= call.max_retries
        /\ \A k \in 1..(Len(call.posts) - 1) : k \in TransportFailures
        /\ call.status = "running" => TransportFailures = 1..Len(call.posts)
        /\ (call.status # "running" /\ Len(call.posts) > 0
              /\ call.posts[Len(call.posts)].exc = "none")
           => /\ call.status = "returned"
              /\ call.ret = call.posts[Len(call.posts)].content
        /\ (call.status # "running" /\ TransportFailures = 1..call.max_retries)
           => /\ call.status = "returned"
              /\ call.ret = None
              /\ Len(call.posts) = call.max_retries
        /\ (call.status = "returned" /\ call.ret # None)
           => call.posts[Len(call.posts)].exc = "none"

\* C16: LLMClient.call makes at most max_retries requests, returns the
\* content of the first one that succeeds and makes none after it, makes
\* another request only after a transport-level failure, returns none after
\* max_retries transport-level failures in a row, and always comes to an end.
C16_BoundedRetries == []C16_Bounded /\ <>(call.status # "running")

\* A call with the default max_retries returned none after three failed
\* requests, and slept between them.
C16_Witness ==
    /\ call.op = "call"
    /\ call.max_retries = DefaultMaxRetries
    /\ call.status = "returned"
    /\ call.ret = None
    /\ Len(call.posts) = 3
    /\ TransportFailures = {1, 2, 3}
    /\ Len(call.sleeps) = 2

\* C29: the waits between the attempts of a call that fails at transport
\* level are 2 s, 4 s, 8 s: the wait after the first failed attempt is 2
\* seconds, each later wait is double the one before, and no wait follows
\* the final attempt.
C29_BackoffDoubling ==
    call.op = "call" =>
        /\ Len(call.sleeps) >= 1 => call.sleeps[1] = 2
        /\ \A k \in 1..(Len(call.sleeps) - 1) : call.sleeps[k + 1] = 2 * call.sleeps[k]
        /\ call.status = "running" => Len(call.sleeps) = Len(call.posts)
        /\ (call.status # "running" /\ Len(call.posts) > 0)
           => Len(call.sleeps) = Len(call.posts) - 1

\* The last request of the call succeeded and its text is not a JSON
\* document.
ContentFailure ==
    /\ call.op = "call"
    /\ call.status = "returned"
    /\ Len(call.posts) > 0
    /\ call.posts[Len(call.posts)].exc = "none"
    /\ \/ call.ret = None
       \/ StripFences(call.ret[1]) \notin DOMAIN JsonDocuments

\* C30: a content failure is not retried: when the HTTP call succeeds and
\* the text it returns is not parseable as JSON, no request follows the
\* successful one (one request in all when the first one succeeds),
\* generate_json returns none, and normalize, given that result, returns
\* none after its one call of the model.
C30_ContentFailureNotRetried ==
    ContentFailure =>
        /\ \A k \in 1..(Len(call.posts) - 1) : call.posts[k].exc # "none"
        /\ call.posts[1].exc = "none" => Len(call.posts) = 1
        /\ call.attempt = Len(call.posts) - 1
        /\ call.json_status # "pending" =>
              /\ call.json_status = "returned"
              /\ call.json = None
              /\ \A c \in NormContents \ {""}, t \in UtcNows :
                    LET r == normalize(c, "react", "18.2", None, call.json, t) IN
                    r.ret = None /\ r.gate = "llm" /\ r.llm_called

\* generate_json returned none after one request whose text was no JSON
\* document.
C30_Witness ==
    /\ ContentFailure
    /\ Len(call.posts) = 1
    /\ call.ret = Some("Here is the skill: {name: React")
    /\ call.json_status = "returned"
    /\ call.json = None

----------------------------------------------------------------------------
(* Properties of SkillNormalizer used directly.                            *)

\* The record of the call as it stands before full validation.
Enriched ==
    PostProcess(call.response_json[1], TruncateContent(call.content), call.skill_name,
                call.skill_version, call.sources, call.utcnow)

\* The model call returned parseable output and it passed the structural
\* pre-check.
Prechecked ==
    /\ call.response_json # None
    /\ PyTruthy(call.response_json[1])
    /\ validate_json_schema(call.response_json[1])[1]

\* C17: normalize returns a record exactly when the content is not empty,
\* the model call returned parseable output, the structural pre-check passed
\* and the full validation of the enriched record reported no error; the
\* record it returns has the caller's version and a last_updated of the form
\* YYYY-MM-DDTHH:MM:SSZ and passes validate_skill; warnings alone never make
\* it return none.  A validation that raised has reported nothing, and the
\* call then returns nothing at all.
C17_NormalizeIffValid ==
    (call.op = "normalize" /\ call.stage # "args") =>
        LET ret == call.out[1].ret IN
        /\ call.stage = "raised" <=>
              call.content # "" /\ Prechecked /\ validate_skill_raises(Enriched)
        /\ ret # None <=>
              /\ call.content # ""
              /\ Prechecked
              /\ ~validate_skill_raises(Enriched)
              /\ validate_skill(Enriched)[2] = <<>>
        /\ ret # None =>
              /\ ret[1] = Enriched
              /\ ret[1].version = JStr(call.skill_version)
              /\ IsStr(ret[1].last_updated)
              /\ Len(ret[1].last_updated.v) = Len(IsoShape)
              /\ MatchesIsoDate(ret[1].last_updated.v)
              /\ validate_skill(ret[1])[1]
        /\ (call.content # "" /\ Prechecked /\ ~validate_skill_raises(Enriched)
              /\ validate_skill(Enriched)[2] = <<>>
              /\ validate_skill(Enriched)[3] # <<>>)
           => ret # None

\* normalize returned a record that validate_skill passes with warnings.
C17_Witness ==
    /\ call.op = "normalize"
    /\ call.stage = "normalized"
    /\ call.out[1].ret # None
    /\ validate_skill(call.out[1].ret[1])[1]
    /\ validate_skill(call.out[1].ret[1])[3] # <<>>
    /\ call.out[1].ret[1].version = JStr("18.2")

\* The value is an object in which the six sections exist and are lists and
\* name, version and purpose exist and are strings.
SchemaOk(data) ==
    /\ IsDict(data)
    /\ \A f \in {"rules", "patterns", "anti_patterns", "security", "performance",
                  "tooling"} :
          f \in DOMAIN data.v /\ IsList(data.v[f])
    /\ \A f \in {"name", "version", "purpose"} :
          f \in DOMAIN data.v /\ IsStr(data.v[f])

\* C26: validate_json_schema returns valid exactly when its argument is an
\* object in which the six sections exist and are lists and name, version and
\* purpose exist and are strings; normalize runs it on the output of the
\* model as it came, and on a failure returns none without post-processing.
C26_SchemaGate ==
    (call.op = "normalize" /\ call.response_json # None) =>
        LET raw == call.response_json[1]
            checked == validate_json_schema(raw)
        IN
        /\ checked[1] <=> SchemaOk(raw)
        /\ checked[1] <=> checked[2] = <<>>
        /\ (call.stage # "args" /\ call.content # "" /\ PyTruthy(raw)) =>
              /\ call.out[1].gate = "schema" <=> ~SchemaOk(raw)
              /\ ~SchemaOk(raw) => call.out[1].ret = None

\* normalize returned none for a response whose name is a number.
C26_Witness ==
    /\ call.op = "normalize"
    /\ call.stage = "normalized"
    /\ call.response_json = Some(JDict(NumericNameResponse))
    /\ call.out[1].gate = "schema"
    /\ call.out[1].ret = None

\* The lines of a text: what lies between its line feeds.
RECURSIVE Lines(_)
Lines(text) ==
    LET feeds == {i \in 1..Len(text) : Char(text, i) = "\n"} IN
    IF feeds = {} THEN <<text>>
    ELSE LET p == CHOOSE i \in feeds : \A j \in feeds : i <= j IN
         <<SubSeq(text, 1, p - 1)>> \o Lines(SubSeq(text, p + 1, Len(text)))

\* The seven list sections with the headers of the document, in its order.
ListSections ==
    <<<<"principles", "Principles">>, <<"rules", "Mandatory Rules">>,
      <<"patterns", "Recommended Patterns">>, <<"anti_patterns", "Anti-Patterns">>,
      <<"security", "Security">>, <<"performance", "Performance">>,
      <<"tooling", "Tooling">>>>

\* The record that was rendered, the sources argument it got, its document.
Rendered ==
    IF call.op = "skill_to_markdown" THEN call.skill[1] ELSE call.out[1].ret[1]

IsHeaderLine(line) == StartsWith(line, "## ")

\* The list of the record under the key is present and not empty.
NonEmptyList(skill, key) ==
    key \in DOMAIN skill /\ IsList(skill[key]) /\ skill[key].v # <<>>

\* C27: skill_to_markdown renders the sections in the order Purpose, Version,
\* Principles, Mandatory Rules, Recommended Patterns, Anti-Patterns, Security,
\* Performance, Tooling, Last-Updated, Sources; the header of each of the
\* seven list sections is present exactly when its list is not empty, with
\* one bullet per item in list order; the Last-Updated and Sources headers
\* are always present.
C27_MarkdownSections ==
    (call.op \in {"normalize", "skill_to_markdown"} /\ call.stage = "rendered") =>
        LET skill == Rendered
            lines == Lines(call.markdown)
            headers == SelectSeq(lines, IsHeaderLine)
            expected ==
                (IF "purpose" \in DOMAIN skill THEN <<"## Purpose">> ELSE <<>>)
                \o (IF "version" \in DOMAIN skill THEN <<"## Version">> ELSE <<>>)
                \o Flatten([k \in 1..Len(ListSections) |->
                              IF NonEmptyList(skill, ListSections[k][1])
                              THEN <<"## " \o ListSections[k][2]>> ELSE <<>>])
                \o <<"## Last-Updated", "## Sources">>
            at(header) == CHOOSE n \in 1..Len(lines) : lines[n] = header
        IN
        /\ headers = expected
        /\ \A k \in 1..Len(ListSections) :
              NonEmptyList(skill, ListSections[k][1]) =>
                 LET items == skill[ListSections[k][1]].v
                     n == at("## " \o ListSections[k][2])
                 IN /\ \A i \in 1..Len(items) : lines[n + i] = "- " \o items[i].v
                    /\ lines[n + Len(items) + 1] = ""

\* A record with no security and no tooling items was rendered without the
\* two headers.
C27_Witness ==
    /\ call.op = "skill_to_markdown"
    /\ call.stage = "rendered"
    /\ {"security", "tooling"} \subseteq DOMAIN call.skill[1]
    /\ call.skill[1].security = JList(<<>>)
    /\ call.skill[1].tooling = JList(<<>>)
    /\ ~Contains(call.markdown, "## Security")
    /\ ~Contains(call.markdown, "## Tooling")
    /\ Contains(call.markdown, "## Performance\n- Perf1\n\n## Last-Updated\n")

\* The call came to the post-processing of the response.
PostProcessed ==
    /\ call.op = "normalize"
    /\ call.stage # "args"
    /\ call.content # ""
    /\ Prechecked

\* C31: after the purpose step of normalize, for every purpose of the model
\* shorter than 50 characters (the empty one included) and every skill name,
\* the purpose of the record has between 50 and 150 characters, so that it
\* puts no error into full validation; a purpose of 50 characters or more
\* is left as it is.
C31_PurposeFloor ==
    PostProcessed =>
        LET emitted == call.response_json[1].v.purpose.v
            purpose == Enriched.purpose.v
        IN
        /\ Len(emitted) >= 50 => purpose = emitted
        /\ Len(emitted) < 50 =>
              /\ Len(purpose) >= 50
              /\ Len(purpose) <= 150
              /\ \A k \in 1..Len(validate_metadata(Enriched).errors) :
                    /\ ~StartsWith(validate_metadata(Enriched).errors[k], "Purpose too")
                    /\ validate_metadata(Enriched).errors[k]
                          # "Missing or empty field: purpose"
              /\ (call.stage = "normalized" /\ call.out[1].ret # None)
                 => call.out[1].ret[1].purpose = JStr(purpose)

\* The first step of normalize, in its order, that the call does not pass.
FirstFailure ==
    IF call.content = "" THEN "content"
    ELSE IF call.response_json = None \/ ~PyTruthy(call.response_json[1]) THEN "llm"
    ELSE IF ~SchemaOk(call.response_json[1]) THEN "schema"
    ELSE IF validate_skill_raises(Enriched) THEN "raise"
    ELSE IF validate_skill(Enriched)[2] # <<>> THEN "validation"
    ELSE "ok"

\* C32: the steps of normalize are hard gates in the order empty-content
\* check, model call, structural pre-check, post-processing, full
\* validation: with empty content normalize returns none and the model is
\* not called; the call ends at the first step that fails, with none, and
\* only a call that passes them all returns the post-processed record.
C32_GatesInOrder ==
    (call.op = "normalize" /\ call.stage # "args") =>
        LET r == call.out[1] IN
        /\ r.gate = FirstFailure
        /\ r.llm_called <=> call.content # ""
        /\ r.gate # "ok" => r.ret = None
        /\ r.gate = "ok" => r.ret = Some(Enriched)
        /\ call.stage = "raised" <=> r.gate = "raise"

\* normalize returned none for empty content without a call of the model,
\* though the model would have answered well.
C32_Witness ==
    /\ call.op = "normalize"
    /\ call.stage = "normalized"
    /\ call.content = ""
    /\ call.response_json = Some(JDict(GoodResponse))
    /\ call.out[1].gate = "content"
    /\ call.out[1].ret = None
    /\ ~call.out[1].llm_called

\* The sources a response of the model carries, if any.
ModelSources ==
    IF call.response_json # None /\ IsDict(call.response_json[1])
       /\ "sources" \in DOMAIN call.response_json[1].v
    THEN Some(call.response_json[1].v.sources)
    ELSE None

\* C18: the sources of the record normalize returns are the caller's list
\* when one is given and not empty, and otherwise the URLs extracted from
\* the content; after skill_to_markdown the sources of the record and the
\* Sources section of the document are its sources argument; what the model
\* put in sources is in neither.
C18_SourcesReset ==
    (call.op = "normalize" /\ call.stage # "args" /\ call.out[1].ret # None) =>
        LET record == call.out[1].ret[1]
            expected == IF call.sources # None /\ call.sources[1] # <<>>
                        THEN JStrList(call.sources[1])
                        ELSE JStrList(ExtractUrls(call.content))
        IN
        /\ record.sources = expected
        /\ ModelSources # None => record.sources # ModelSources[1]
        /\ call.stage = "rendered" =>
              LET given == call.render_sources[1]
                  tail == "## Sources\n" \o Bullets(given)
                  md == call.markdown
              IN
              /\ call.skill_after[1].sources = given
              /\ \A k \in DOMAIN record \ {"sources"} :
                    call.skill_after[1][k] = record[k]
              /\ Len(md) >= Len(tail)
              /\ SubSeq(md, Len(md) - Len(tail) + 1, Len(md)) = tail
              /\ ModelSources # None =>
                    \A k \in 1..Len(ModelSources[1].v) :
                       ~Contains(md, ModelSources[1].v[k].v)

\* A record whose response carried a sources list of the model was
\* returned with the caller's list and rendered with another one.
C18_Witness ==
    /\ call.op = "normalize"
    /\ call.stage = "rendered"
    /\ ModelSources # None
    /\ call.sources = Some(<<"https://react.dev/reference">>)
    /\ call.out[1].ret[1].sources = JStrList(<<"https://react.dev/reference">>)
    /\ call.render_sources = Some(JList(<<>>))
    /\ call.skill_after[1].sources = JList(<<>>)

----------------------------------------------------------------------------
(* Properties of SkillValidator used directly.                             *)

\* A string of between lo and hi characters.
StrWithin(x, lo, hi) == IsStr(x) /\ Len(x.v) >= lo /\ Len(x.v) <= hi

\* The record satisfies every bound of the data model: metadata present and
\* within its length bounds, a timestamp of the shape YYYY-MM-DDTHH:MM:SSZ,
\* sources a non-empty list of http(s) URLs, every section present with a
\* count within its bounds, every item a string of 15 to 150 characters.
WithinBounds(skill) ==
    /\ \A f \in {"name", "version", "purpose", "last_updated", "sources"} :
          f \in DOMAIN skill
    /\ StrWithin(skill.name, 1, 50)
    /\ StrWithin(skill.version, 1, 20)
    /\ StrWithin(skill.purpose, 50, 150)
    /\ StrWithin(skill.last_updated, Len(IsoShape), Len(IsoShape))
    /\ MatchesIsoDate(skill.last_updated.v)
    /\ IsList(skill.sources)
    /\ skill.sources.v # <<>>
    /\ \A i \in 1..Len(skill.sources.v) :
          /\ IsStr(skill.sources.v[i])
          /\ \/ StartsWith(skill.sources.v[i].v, "http://")
             \/ StartsWith(skill.sources.v[i].v, "https://")
    /\ \A section \in DOMAIN SECTION_LIMITS :
          /\ section \in DOMAIN skill
          /\ IsList(skill[section])
          /\ Len(skill[section].v) >= SECTION_LIMITS[section][1]
          /\ Len(skill[section].v) <= SECTION_LIMITS[section][2]
          /\ \A i \in 1..Len(skill[section].v) :
                StrWithin(skill[section].v[i], 15, 150)

\* The call of validate_skill is over.
Validated == call.op = "validate_skill" /\ call.stage # "args"

\* C19: for every record that satisfies every bound of the data model,
\* validate_skill returns ok = true with an empty error list; whenever it
\* returns, ok is true exactly when the error list is empty.
C19_ValidRecordPasses ==
    Validated =>
        /\ WithinBounds(call.skill) =>
              /\ call.stage = "returned"
              /\ call.ret[1][1] = TRUE
              /\ call.ret[1][2] = <<>>
        /\ call.stage = "returned" =>
              (call.ret[1][1] = TRUE <=> call.ret[1][2] = <<>>)

\* A record with a purpose of 150 characters and an item that draws a
\* warning, within every bound, was passed.
C19_Witness ==
    /\ Validated
    /\ WithinBounds(call.skill)
    /\ Len(call.skill.purpose.v) = 150
    /\ call.ret[1][1] = TRUE
    /\ call.ret[1][3] # <<>>

\* The record with the key set to the value of the valid record passes.
OtherwiseValid(skill, key) ==
    LET fixed == SetKey(skill, key, ValidSkill[key]) IN
    ~validate_skill_raises(fixed) /\ validate_skill(fixed)[1]

\* C21: for an otherwise valid record, validate_skill returns ok = false for
\* every purpose of length below 50 or above 150 and ok = true for every
\* purpose of length 50 to 150, the lengths 50 and 150 included.
C21_PurposeBounds ==
    (/\ Validated
     /\ "purpose" \in DOMAIN call.skill
     /\ IsStr(call.skill.purpose)
     /\ OtherwiseValid(call.skill, "purpose")) =>
        /\ call.stage = "returned"
        /\ call.ret[1][1] = (Len(call.skill.purpose.v) >= 50
                              /\ Len(call.skill.purpose.v) <= 150)

\* An otherwise valid record with a purpose of exactly 50 characters passed.
C21_Witness ==
    /\ Validated
    /\ "purpose" \in DOMAIN call.skill
    /\ IsStr(call.skill.purpose)
    /\ OtherwiseValid(call.skill, "purpose")
    /\ Len(call.skill.purpose.v) = 50
    /\ call.ret[1][1] = TRUE

\* The item counts the six required sections are to have.
RequiredCounts ==
    [rules |-> <<3, 10>>, patterns |-> <<3, 10>>, anti_patterns |-> <<2, 5>>,
     security |-> <<1, 5>>, performance |-> <<1, 5>>, tooling |-> <<1, 5>>]

\* The section of the record is a list of strings.
StringList(skill, section) ==
    /\ section \in DOMAIN skill
    /\ IsList(skill[section])
    /\ \A i \in 1..Len(skill[section].v) : IsStr(skill[section].v[i])

\* C22: for each of the six required sections, validate_skill returns
\* ok = false when the section is missing, is not a list, or has an item
\* count below its minimum or above its maximum; an otherwise valid record
\* with a count exactly at the minimum or at the maximum passes.  The first
\* part is about the calls that return.
C22_SectionBounds ==
    Validated =>
        \A section \in DOMAIN RequiredCounts :
            LET lo == RequiredCounts[section][1]
                hi == RequiredCounts[section][2]
            IN
            /\ (/\ call.stage = "returned"
                /\ \/ section \notin DOMAIN call.skill
                   \/ ~IsList(call.skill[section])
                   \/ Len(call.skill[section].v) < lo
                   \/ Len(call.skill[section].v) > hi)
               => call.ret[1][1] = FALSE
            /\ (/\ StringList(call.skill, section)
                /\ Len(call.skill[section].v) \in {lo, hi}
                /\ OtherwiseValid(call.skill, section))
               => (call.stage = "returned" /\ call.ret[1][1] = TRUE)

\* An otherwise valid record with ten patterns, the maximum, passed.
C22_Witness ==
    /\ Validated
    /\ call.stage = "returned"
    /\ StringList(call.skill, "patterns")
    /\ Len(call.skill.patterns.v) = 10
    /\ OtherwiseValid(call.skill, "patterns")
    /\ call.ret[1][1] = TRUE

\* The items of the six required sections of the record.
AllItems(skill) ==
    Flatten([k \in 1..Len(RequiredSections) |-> SectionItems(skill, RequiredSections[k])])

\* An item of a required section is a string shorter than 15 or longer than
\* 150 characters.
HasItemOutside(skill) ==
    \E i \in 1..Len(AllItems(skill)) :
       /\ IsStr(AllItems(skill)[i])
       /\ ~StrWithin(AllItems(skill)[i], 15, 150)

\* C23: item length violations are hard failures: a record that satisfies
\* every other check, all section counts included, but contains a list item
\* shorter than 15 or longer than 150 characters fails validation.
C23_ItemLengthFails ==
    (/\ Validated
     /\ call.stage = "returned"
     /\ validate_metadata(call.skill).errors = <<>>
     /\ validate_sections(call.skill).errors = <<>>
     /\ \A i \in 1..Len(AllItems(call.skill)) : IsStr(AllItems(call.skill)[i])
     /\ HasItemOutside(call.skill)) =>
        call.ret[1][1] = FALSE

\* The ten vague words.
VagueWords ==
    {"should", "try", "might", "possibly", "perhaps", "seems", "appears", "may",
     "can", "could"}

\* The string holds one of the vague words as a word of its own.
HasVagueWord(text) ==
    \E w \in VagueWords : Contains(" " \o Lower(text) \o " ", " " \o w \o " ")

\* The number of items of the section for which P holds.
CountItems(skill, section, P(_, _)) ==
    Cardinality({i \in 1..Len(SectionItems(skill, section)) :
                    P(SectionItems(skill, section), i)})

OutsideAt(items, i) == IsStr(items[i]) /\ ~StrWithin(items[i], 15, 150)
VagueAt(items, i) == IsStr(items[i]) /\ HasVagueWord(items[i].v)
RepeatedAt(items, i) == \E j \in 1..(i - 1) : items[j] = items[i]
NonStringAt(items, i) == ~IsStr(items[i])

\* The sum of f over the six required sections.
RECURSIVE SumSections(_, _)
SumSections(f(_), k) ==
    IF k = 0 THEN 0 ELSE f(RequiredSections[k]) + SumSections(f, k - 1)

C25_PrinciplesEnforced ==
    (Validated /\ call.stage = "returned" /\ call.ret[1][1] = TRUE) =>
        /\ "principles" \in DOMAIN call.skill
        /\ IsList(call.skill.principles)
        /\ Len(call.skill.principles.v) >= 3
        /\ Len(call.skill.principles.v) <= 5

\* The rules of validate_skill that a record breaks, each named by the start
\* of the error message that reports it.
ViolatedChecks(skill) ==
    LET str(f) == f \in DOMAIN skill /\ IsStr(skill[f]) /\ skill[f].v # ""
        section(k) == RequiredSections[k]
    IN
    {"Missing or empty field: " \o RequiredFields[i] : i \in
        {i \in 1..Len(RequiredFields) :
            \/ RequiredFields[i] \notin DOMAIN skill
            \/ ~PyTruthy(skill[RequiredFields[i]])}}
    \cup (IF str("name") /\ Len(skill.name.v) > 50 THEN {"Name too long: "} ELSE {})
    \cup (IF str("version") /\ Len(skill.version.v) > 20
          THEN {"Version too long: "} ELSE {})
    \cup (IF str("purpose") /\ Len(skill.purpose.v) < 50
          THEN {"Purpose too short: "} ELSE {})
    \cup (IF str("purpose") /\ Len(skill.purpose.v) > 150
          THEN {"Purpose too long: "} ELSE {})
    \cup (IF str("last_updated") /\ ~MatchesIsoDate(skill.last_updated.v)
          THEN {"Invalid ISO date: "} ELSE {})
    \cup (IF "sources" \in DOMAIN skill /\ ~IsList(skill.sources)
          THEN {"sources must be a list"} ELSE {})
    \cup (IF "sources" \in DOMAIN skill /\ skill.sources = JList(<<>>)
          THEN {"At least one source required"} ELSE {})
    \cup {"Missing section: " \o section(k) : k \in
            {k \in 1..Len(RequiredSections) : section(k) \notin DOMAIN skill}}
    \cup {section(k) \o " must be a list" : k \in
            {k \in 1..Len(RequiredSections) :
                section(k) \in DOMAIN skill /\ ~IsList(skill[section(k)])}}
    \cup {section(k) \o ": too few items" : k \in
            {k \in 1..Len(RequiredSections) :
                /\ section(k) \in DOMAIN skill
                /\ IsList(skill[section(k)])
                /\ Len(skill[section(k)].v) < SECTION_LIMITS[section(k)][1]}}
    \cup {section(k) \o ": too many items" : k \in
            {k \in 1..Len(RequiredSections) :
                /\ section(k) \in DOMAIN skill
                /\ IsList(skill[section(k)])
                /\ Len(skill[section(k)].v) > SECTION_LIMITS[section(k)][2]}}
    \cup {section(k) \o ": non-string item" : k \in
            {k \in 1..Len(RequiredSections) :
                /\ section(k) \in DOMAIN skill
                /\ IsList(skill[section(k)])
                /\ \E i \in 1..Len(skill[section(k)].v) :
                      ~IsStr(skill[section(k)].v[i])}}

\* C33: validate_skill does not stop at the first finding: in every call
\* that returns, each rule the record breaks has its error in the returned
\* list, so a record that breaks several rules gets at least as many errors.
C33_EveryViolationReported ==
    (Validated /\ call.stage = "returned") =>
        LET errors == call.ret[1][2] IN
        /\ \A check \in ViolatedChecks(call.skill) :
              \E k \in 1..Len(errors) : StartsWith(errors[k], check)
        /\ Len(errors) >= Cardinality(ViolatedChecks(call.skill))
        /\ call.ret[1][1] <=> ViolatedChecks(call.skill) = {}

\* A record without a name, with a purpose that is too short and with too few
\* rules came back with the three errors.
C33_Witness ==
    /\ Validated
    /\ call.stage = "returned"
    /\ "name" \notin DOMAIN call.skill
    /\ "purpose" \in DOMAIN call.skill
    /\ call.skill.purpose = JStr(Rep("p", 49))
    /\ ViolatedChecks(call.skill)
          = {"Missing or empty field: name", "Purpose too short: ",
             "rules: too few items"}
    /\ call.ret[1][2] = <<"Missing or empty field: name",
                          "Purpose too short: 49 chars (min 50)",
                          "rules: too few items (2, min 3)">>

\* One of the required metadata fields is missing or empty.
MissingMetadata(skill) ==
    \E i \in 1..Len(RequiredFields) :
       \/ RequiredFields[i] \notin DOMAIN skill
       \/ ~PyTruthy(skill[RequiredFields[i]])

\* C20: for every record in which one of name, version, purpose,
\* last_updated or sources is missing or empty, validate_skill returns
\* ok = false, whatever the rest of the record contains.
C20_MissingFieldFails ==
    (Validated /\ MissingMetadata(call.skill)) =>
        /\ call.stage = "returned"
        /\ call.ret[1][1] = FALSE

----------------------------------------------------------------------------
(* Properties of fetch_sources used directly. *)

\* fetch_sources has returned, with a value or with none.
Fetched == call.op = "fetch_sources" /\ call.stage \notin {"args", "raised"}

\* The descriptor a call of fetch_sources reads, if there is one.
FetchedDescriptor == load_source_descriptor(call.skill_name).ret

\* The header and the labeled sections of the sources that answered, in the
\* order of the descriptor, under the timestamp now_iso.
CombinedText(now_iso) ==
    LET sources == FetchedDescriptor[1].sources IN
    "# Sources for " \o call.skill_name \o "\n\n"
    \o "Generated: " \o now_iso \o "\n\n"
    \o Join([i \in 1..Len(sources) |-> SourceSection(sources[i], call.http[i])], "")

\* C34: fetch_sources returns none exactly when the descriptor is missing,
\* has no source, or the combined text is shorter than 100 characters; a
\* combined text of 100 characters or more is returned, with the labeled
\* sections of the sources in the order of the descriptor.
C34_NoneBelowHundred ==
    Fetched =>
        IF FetchedDescriptor = None THEN call.ret = None
        ELSE IF FetchedDescriptor[1].sources = <<>> THEN call.ret = None
        ELSE IF Len(CombinedText(call.now_iso)) < 100 THEN call.ret = None
        ELSE call.ret = Some(CombinedText(call.now_iso))

\* C37: two calls of fetch_sources for one skill whose sources answer the
\* same return the same combined text, and compute_diff of the later text
\* against a snapshot of the earlier one is none.
C37_SameBodiesSameText ==
    /\ (call.op = "fetch_sources" /\ call.stage \in {"refetched", "saved", "compared"})
          => call.again = call.ret
    /\ (call.op = "fetch_sources" /\ call.stage = "compared") => call.diff = None

----------------------------------------------------------------------------
(* Properties of GitHubSync used directly. *)

\* C38: when at least one skill was committed, push_changes invokes
\* push_branch for the working branch whatever the state of the working
\* tree after the commits, and returns failure when the push fails.
C38_CommitsArePushed ==
    (call.op = "push_changes" /\ call.commits # <<>>) =>
        /\ call.pushed
        /\ call.ret <=> call.push_ok

----------------------------------------------------------------------------
(* Properties of a SkillValidator used for several calls. *)

\* C39: validate_skill is a function of the record alone: whatever calls
\* were made before on the same validator, a call returns what a new
\* validator returns for the record, the lists an earlier call returned still
\* hold what they held then, and the record is as it was.
C39_PureOfRecord ==
    call.op = "validate_skill" =>
        LET heap == call.validator.heap IN
        /\ call.outcome = "raised" <=> validate_skill_raises(call.skill)
        /\ call.outcome = "returned" =>
              <<call.ret[1][1], heap[call.ret[1][2]], heap[call.ret[1][3]]>>
                 = validate_skill(call.skill)
        /\ \A k \in 1..Len(call.earlier) :
              call.earlier[k].ret # None =>
                 /\ heap[call.earlier[k].ret[1][2]] = call.earlier[k].errors
                 /\ heap[call.earlier[k].ret[1][3]] = call.earlier[k].warnings
        /\ call.skill_after = call.skill

\* A record that passes was validated third, after a record with errors and
\* a record with a warning, and after its call the two earlier results still
\* hold their findings.
C39_Witness ==
    /\ call.op = "validate_skill"
    /\ Len(call.earlier) = 3
    /\ call.earlier[1].ret # None
    /\ Len(call.earlier[1].errors) >= 3
    /\ call.earlier[2].ret # None
    /\ Len(call.earlier[2].warnings) >= 1
    /\ call.skill = ValidSkill
    /\ call.ret = Some(<<TRUE, 7, 8>>)
    /\ call.validator.heap[7] = <<>>
    /\ call.validator.heap[8] = <<>>
    /\ call.validator.heap[3] = call.earlier[1].errors
    /\ call.validator.heap[6] = call.earlier[2].warnings

----------------------------------------------------------------------------
(* Properties of the snapshot methods used directly.                       *)


\* C9 (as claimed): for every skill and every new_content, the empty string
\* included, compute_diff returns new_content when no snapshot is stored,
\* none when the stored snapshot is identical to new_content, and new_content
\* when the stored snapshot differs.
C9_DiffContract ==
    call.op = "compute_diff" =>
        LET stored == call.before[call.skill] IN
        /\ stored = None => call.ret = Some(call.content)
        /\ stored = Some(call.content) => call.ret = None
        /\ (stored # None /\ stored # Some(call.content)) =>
               call.ret = Some(call.content)

\* C10 (as claimed): compute_diff never changes a stored snapshot, and once
\* save_snapshot(s, c) has succeeded, every compute_diff(s, c) made while c is
\* the last content saved for s returns none.
C10_DiffFrameAndIdempotent ==
    call.op = "compute_diff" =>
        /\ snapshots = call.before
        /\ (call.saved[call.skill] # <<>>
              /\ call.saved[call.skill][Len(call.saved[call.skill])] = call.content)
           => call.ret = None

\* C35: snapshots are whole values kept per skill: load_snapshot(s) after a
\* save_snapshot(s, c) that succeeded returns exactly c, the content of the
\* last save and nothing of an earlier one, and a save_snapshot for one skill
\* leaves the snapshot of every other skill as it was.
C35_WholeValuePerSkill ==
    /\ (call.op = "load_snapshot" /\ call.saved[call.skill] # <<>>) =>
          call.ret = Some(call.saved[call.skill][Len(call.saved[call.skill])])
    /\ call.op = "save_snapshot" =>
          /\ \A t \in FetcherSkills \ {call.skill} : snapshots[t] = call.before[t]
          /\ call.ok => snapshots[call.skill] = Some(call.content)
          /\ ~call.ok => snapshots[call.skill] = call.before[call.skill]

====
